---- MODULE Spec2Model ----
(***************************************************************************)
(* A model of the symbolserver: the MemDB writer and address lookup        *)
(* (src/src/memdb/write.rs, src/src/utils.rs), the MemDB stash with its    *)
(* sync against the upstream bucket (src/src/memdb/stash.rs), the older    *)
(* MemDB module (src/src/memdb.rs), the SDK names (src/src/sdk.rs) and the *)
(* API server and its lookup handler (src/src/api).                        *)
(***************************************************************************)
EXTENDS Integers, Sequences, FiniteSets, TLC

(***************************************************************************)
(* Bounds of the model.                                                    *)
(***************************************************************************)
\* number of distinct upstream versions (etag, size) an SDK can have
MaxEtag == 2
\* number of write_all calls one download makes (copy_with_progress loop)
MaxChunks == 2
\* number of sync() calls made
MaxSyncs == 3
\* number of sync() calls made while request threads call get_memdb()
MaxConcSyncs == 2
\* length of the slices searched by binsearch_by_key
MaxLen == 4
\* greatest key of the slices searched by binsearch_by_key
MaxKey == 4
\* number of variants (slices of objects) given to the MemDB writer
MaxVariants == 2
\* number of symbols of one variant
MaxSymbols == 2
\* greatest offset of a symbol from the text vmaddr of its variant
MaxOff == 2
\* greatest text vmsize of a variant
MaxSize == 1
\* greatest length of a byte buffer beyond its header, in units of 4 bytes
MaxBody == 8
\* greatest count, offset beyond the header, id the bytes of a buffer encode
MaxCount == 2
\* greatest number of upstream SDKs of a status the health check caches
MaxTotal == 10
\* greatest number of missing, and of different, SDKs of such a status
MaxBehind == 1
\* the text vmaddr of a variant
VmBase == 4
\* greatest patch level of an SDK, greatest number of local SDKs matched
MaxPatch == 1
MaxLocal == 2
\* greatest number of sync() calls between which get_memdb() calls race
MaxCacheSyncs == 2

(***************************************************************************)
(* Stash: data types                                                       *)
(***************************************************************************)
\* The SDKs, each named by its local filename "<sdk_id>.memdb"; upstream
\* lists it as "<sdk_id>.memdbz".  The upstream names are the canonical
\* ones, "<name>_<major>.<minor>.<patch>_<build>.memdbz", so that the
\* filename made from the SdkInfo of an SDK is its local filename; one name
\* stands for an SDK's SdkInfo and for its local filename.
SdkNames == {"A", "B"}

\* Option::None for a map lookup (SdkSyncState::get_sdk) and for the
\* revision (Option<u64>).
NoSdk == 0
NoRevision == -1

Etags == 1..MaxEtag

\* RemoteSdk values of one filename are told apart by their etag, which
\* stands for the (etag, size) pair the derived PartialEq compares.
SdkMaps == [SdkNames -> {NoSdk} \cup Etags]

unwrap_or_0(rev) == IF rev = NoRevision THEN 0 ELSE rev

\* SdkSyncState::default(): no sdks, revision None
DefaultState == [sdks |-> [n \in SdkNames |-> NoSdk], revision |-> NoRevision]

keys(sdks) == {n \in SdkNames : sdks[n] # NoSdk}

\* a file of the symbol directory: absent, or the bytes written so far of
\* the MemDB with the given etag
NoFile == [exists |-> FALSE, etag |-> NoSdk, written |-> 0]
IsComplete(f) == f.exists /\ f.written = MaxChunks
IsPartial(f) == f.exists /\ f.written < MaxChunks

\* an entry of the memdbs cache
NoMemDb == [open |-> FALSE, by |-> 0]

VARIABLES
    upstream,         \* the bucket listing: filename -> etag, NoSdk if not listed
    sync_state_file,  \* <<>> if sync.state does not exist, else <<SdkSyncState>>
    files,            \* the MemDB files of the symbol directory
    local_state,      \* MemDbStash.local_state: <<>> for None, else <<SdkSyncState>>
    memdbs,           \* MemDbStash.memdbs: the cache of opened MemDBs
    s,                \* the frame of the thread running sync()
    g,                \* the frames of the threads calling get_memdb()
    q,                \* the frame of the thread calling get_sync_status()
    h,                \* history of the sync calls (for the properties only)
    bin,              \* a call of binsearch_by_key: its arguments and result
    db,               \* a MemDbBuilder, the file it wrote, a lookup in it
    rd,               \* a MemDb over a byte buffer: the buffer, a lookup in it
    srv,              \* the ApiServer: its background threads, its cached status
    old,              \* memdb.rs: its MemDbBuilder, the file it wrote, a lookup in it
    req,              \* a request to lookup_symbol_handler and its response
    fz,               \* a call of fuzzy_match_sdk_id: the local SDKs, the result
    fn                \* an SdkInfo parsed from a path or filename and formatted

stash_vars == <<upstream, sync_state_file, files, local_state, memdbs, s, g, q, h>>

more_vars == <<old, req, fz, fn>>

lib_vars == <<bin, db, rd, srv, more_vars>>

vars == <<stash_vars, lib_vars>>

\* the request threads that call get_memdb
Readers == {1, 2}

\* the request thread of the specifications with one caller of get_memdb
Callers == {1}

\* read of sync.state as read_local_state does it: Default when NotFound
DiskState == IF sync_state_file = <<>> THEN DefaultState ELSE sync_state_file[1]

IdleSync == [pc |-> "idle", local |-> DefaultState, remote |-> DefaultState,
             todo |-> {}, cur |-> "", to_delete |-> {}, del_todo |-> {}]

NoHistory == [result |-> "none", failed_at |-> "", downloaded |-> {},
              deleted |-> {}, start |-> DefaultState, second |-> FALSE,
              unchanged_since_ok |-> FALSE, applied |-> 0, syncs |-> 0,
              last_revision |-> 0]

\* matched: the call is made by lookup_symbol_handler for a candidate that
\* fuzzy_match_sdk_id returned
IdleReader == [pc |-> "idle", info |-> "", rv |-> DefaultState, entry |-> NoSdk,
               file |-> NoFile, handle |-> NoMemDb, result |-> "none",
               matched |-> FALSE]

NoStatus == [remote_total |-> 0, missing |-> 0, different |-> 0,
             revision |-> 0, offline |-> FALSE]

\* remote: <<>> until fetch_remote_state returned Ok, then <<remote_state>>
IdleStatus == [pc |-> "idle", local |-> DefaultState, remote |-> <<>>,
               status |-> NoStatus, result |-> "none"]

StashInit ==
    /\ upstream \in SdkMaps
    /\ sync_state_file = <<>>
    /\ files = [n \in SdkNames |-> NoFile]
    /\ local_state = <<>>
    /\ memdbs = [n \in SdkNames |-> NoMemDb]
    /\ s = IdleSync
    /\ g = [r \in Readers |-> IdleReader]
    /\ q = IdleStatus
    /\ h = NoHistory

(***************************************************************************)
(* Stash: sync()                                                           *)
(***************************************************************************)
\* sync() returns: Ok, or Err from the `?` at the step named by `at`
SyncReturn(result, at, hist) ==
    /\ s' = [IdleSync EXCEPT !.pc = "done"]
    /\ h' = [hist EXCEPT !.result = result, !.failed_at = at,
                         !.unchanged_since_ok = (result = "ok")]

\* the caller drops the result
sync_done ==
    /\ s.pc = "done"
    /\ s' = IdleSync
    /\ h' = [NoHistory EXCEPT !.unchanged_since_ok = h.unchanged_since_ok,
                              !.applied = h.applied, !.syncs = h.syncs,
                              !.last_revision = h.last_revision]
    /\ UNCHANGED <<lib_vars, upstream, sync_state_file, files, local_state, memdbs, g, q>>

\* the upstream bucket changes between two syncs
UpstreamChange ==
    /\ s.pc = "idle"
    /\ \E u \in SdkMaps \ {upstream} : upstream' = u
    /\ h' = [h EXCEPT !.unchanged_since_ok = FALSE]
    /\ UNCHANGED <<lib_vars, sync_state_file, files, local_state, memdbs, s, g, q>>

sync_start ==
    /\ s.pc = "idle"
    /\ h.syncs < MaxSyncs
    /\ s' = [IdleSync EXCEPT !.pc = "read_disk"]
    /\ h' = [h EXCEPT !.result = "running", !.failed_at = "",
                      !.downloaded = {}, !.deleted = {},
                      !.start = DiskState, !.second = h.unchanged_since_ok,
                      !.syncs = @ + 1]
    /\ UNCHANGED <<lib_vars, upstream, sync_state_file, files, local_state, memdbs, g, q>>

\* read_local_state, first half: parse sync.state (Default when NotFound)
sync_read_local_state ==
    /\ s.pc = "read_disk"
    /\ s' = [s EXCEPT !.pc = "install_read", !.local = DiskState]
    /\ UNCHANGED <<lib_vars, upstream, sync_state_file, files, local_state, memdbs, h, g, q>>

\* read_local_state, second half: install the parsed state under the write lock
sync_install_read_state ==
    /\ s.pc = "install_read"
    /\ local_state' = <<s.local>>
    /\ s' = [s EXCEPT !.pc = "fetch"]
    /\ UNCHANGED <<lib_vars, upstream, sync_state_file, files, memdbs, h, g, q>>

\* fetch_remote_state: the listing keyed by local filename, revision None
fetch_remote_state == [sdks |-> upstream, revision |-> NoRevision]

sync_fetch_remote_state ==
    /\ s.pc = "fetch"
    /\ s' = [s EXCEPT !.pc = "loop", !.remote = fetch_remote_state,
                      !.to_delete = keys(s.local.sdks),
                      !.todo = keys(fetch_remote_state.sdks)]
    /\ UNCHANGED <<lib_vars, upstream, sync_state_file, files, local_state, memdbs, h, g, q>>

sync_fetch_remote_state_fails ==
    /\ s.pc = "fetch"
    /\ SyncReturn("err", "fetch", h)
    /\ UNCHANGED <<lib_vars, upstream, sync_state_file, files, local_state, memdbs, g, q>>

\* `local_sdk != sdk` or no local sdk: the SDK has to be downloaded
needs_update(local, remote, n) == local.sdks[n] # remote.sdks[n]

\* one iteration of `for sdk in remote_state.sdks()` for an unchanged SDK
sync_unchanged_sdk(n) ==
    /\ s.pc = "loop"
    /\ n \in s.todo
    /\ ~needs_update(s.local, s.remote, n)
    /\ s' = [s EXCEPT !.todo = @ \ {n}, !.to_delete = @ \ {n}]
    /\ UNCHANGED <<lib_vars, upstream, sync_state_file, files, local_state, memdbs, h, g, q>>

\* one iteration for a new or changed SDK: enter update_sdk
sync_changed_sdk(n) ==
    /\ s.pc = "loop"
    /\ n \in s.todo
    /\ needs_update(s.local, s.remote, n)
    /\ s' = [s EXCEPT !.pc = "download", !.cur = n]
    /\ UNCHANGED <<lib_vars, upstream, sync_state_file, files, local_state, memdbs, h, g, q>>

\* update_sdk: self.s3.download_sdk(sdk)? reads the whole object into memory
update_sdk_download ==
    /\ s.pc = "download"
    /\ s' = [s EXCEPT !.pc = "create"]
    /\ UNCHANGED <<lib_vars, upstream, sync_state_file, files, local_state, memdbs, h, g, q>>

update_sdk_download_fails ==
    /\ s.pc = "download"
    /\ SyncReturn("err", "download", h)
    /\ UNCHANGED <<lib_vars, upstream, sync_state_file, files, local_state, memdbs, g, q>>

\* the file fs::File::create leaves at path/local_filename: created or
\* truncated in place, ready to take the bytes of the sdk being downloaded
created_file(remote, n) == [exists |-> TRUE, etag |-> remote.sdks[n], written |-> 0]

update_sdk_create ==
    /\ s.pc = "create"
    /\ files' = [files EXCEPT ![s.cur] = created_file(s.remote, s.cur)]
    /\ s' = [s EXCEPT !.pc = "write"]
    /\ UNCHANGED <<lib_vars, upstream, sync_state_file, local_state, memdbs, h, g, q>>

update_sdk_create_fails ==
    /\ s.pc = "create"
    /\ SyncReturn("err", "create", h)
    /\ UNCHANGED <<lib_vars, upstream, sync_state_file, files, local_state, memdbs, g, q>>

\* local_state.update_sdk(&sdk); revision = Some(revision.unwrap_or(0) + 1)
updated_state(local, remote, n) ==
    [sdks |-> [local.sdks EXCEPT ![n] = remote.sdks[n]],
     revision |-> unwrap_or_0(local.revision) + 1]

\* copy_with_progress: one write_all of decoded bytes; after the last one
\* update_sdk returns Ok and sync updates its copy of the local state
update_sdk_write ==
    /\ s.pc = "write"
    /\ files' = [files EXCEPT ![s.cur].written = @ + 1]
    /\ IF files[s.cur].written + 1 = MaxChunks
       THEN /\ s' = [s EXCEPT !.pc = "save", !.to_delete = @ \ {s.cur},
                              !.local = updated_state(s.local, s.remote, s.cur)]
            /\ h' = [h EXCEPT !.downloaded = @ \cup {s.cur},
                              !.applied = @ + 1]
       ELSE UNCHANGED <<lib_vars, s, h>>
    /\ UNCHANGED <<lib_vars, upstream, sync_state_file, local_state, memdbs, g, q>>

\* the decoder or write_all fails: `?` returns, the file stays as written
update_sdk_write_fails ==
    /\ s.pc = "write"
    /\ SyncReturn("err", "write", h)
    /\ UNCHANGED <<lib_vars, upstream, sync_state_file, files, local_state, memdbs, g, q>>

\* save_local_state, first half: save_state (temp file and rename)
sync_save_state ==
    /\ s.pc = "save"
    /\ sync_state_file' = <<s.local>>
    /\ s' = [s EXCEPT !.pc = "install"]
    /\ UNCHANGED <<lib_vars, upstream, files, local_state, memdbs, h, g, q>>

sync_save_state_fails ==
    /\ s.pc = "save"
    /\ SyncReturn("err", "save", h)
    /\ UNCHANGED <<lib_vars, upstream, sync_state_file, files, local_state, memdbs, g, q>>

\* save_local_state, second half: install the state under the write lock
sync_install_state ==
    /\ s.pc = "install"
    /\ local_state' = <<s.local>>
    /\ s' = [s EXCEPT !.pc = "loop", !.todo = @ \ {s.cur}, !.cur = ""]
    /\ UNCHANGED <<lib_vars, upstream, sync_state_file, files, memdbs, h, g, q>>

\* the loop over the remote sdks is over: go on with `to_delete`
sync_loop_done ==
    /\ s.pc = "loop"
    /\ s.todo = {}
    /\ s' = [s EXCEPT !.pc = "delete", !.del_todo = s.to_delete]
    /\ UNCHANGED <<lib_vars, upstream, sync_state_file, files, local_state, memdbs, h, g, q>>

\* remove_sdk: fs::remove_file, NotFound ignored
sync_remove_sdk(n) ==
    /\ s.pc = "delete"
    /\ n \in s.del_todo
    /\ s.local.sdks[n] # NoSdk
    /\ files' = [files EXCEPT ![n] = NoFile]
    /\ s' = [s EXCEPT !.pc = "evict", !.cur = n]
    /\ h' = [h EXCEPT !.deleted = @ \cup {n}, !.applied = @ + 1]
    /\ UNCHANGED <<lib_vars, upstream, sync_state_file, local_state, memdbs, g, q>>

sync_remove_sdk_fails(n) ==
    /\ s.pc = "delete"
    /\ n \in s.del_todo
    /\ s.local.sdks[n] # NoSdk
    /\ files[n].exists
    /\ SyncReturn("err", "delete", h)
    /\ UNCHANGED <<lib_vars, upstream, sync_state_file, files, local_state, memdbs, g, q>>

\* self.memdbs.write().unwrap().remove(&sdk.info())
sync_evict_memdb ==
    /\ s.pc = "evict"
    /\ memdbs' = [memdbs EXCEPT ![s.cur] = NoMemDb]
    /\ s' = [s EXCEPT !.pc = "delete", !.del_todo = @ \ {s.cur}, !.cur = ""]
    /\ UNCHANGED <<lib_vars, upstream, sync_state_file, files, local_state, h, g, q>>

\* the variant of the final state that takes the remote state as listed,
\* its revision None
final_state_unnumbered(local, remote) == remote

\* remote_state.revision = Some(local_state.revision.unwrap_or(0) + 1)
final_state(local, remote) ==
    [remote EXCEPT !.revision = unwrap_or_0(local.revision) + 1]

\* save_local_state(&remote_state), first half
sync_final_save_state ==
    /\ s.pc = "delete"
    /\ s.del_todo = {}
    /\ sync_state_file' = <<final_state(s.local, s.remote)>>
    /\ s' = [s EXCEPT !.pc = "final_install"]
    /\ UNCHANGED <<lib_vars, upstream, files, local_state, memdbs, h, g, q>>

sync_final_save_state_fails ==
    /\ s.pc = "delete"
    /\ s.del_todo = {}
    /\ SyncReturn("err", "final_save", h)
    /\ UNCHANGED <<lib_vars, upstream, sync_state_file, files, local_state, memdbs, g, q>>

\* save_local_state(&remote_state), second half, and Ok(())
sync_final_install_state ==
    /\ s.pc = "final_install"
    /\ local_state' = <<final_state(s.local, s.remote)>>
    /\ SyncReturn("ok", "", h)
    /\ UNCHANGED <<lib_vars, upstream, sync_state_file, files, memdbs, g, q>>

\* the steps of a sync() call that has started
sync_steps ==
    \/ sync_read_local_state
    \/ sync_install_read_state
    \/ sync_fetch_remote_state
    \/ sync_fetch_remote_state_fails
    \/ \E n \in SdkNames : sync_unchanged_sdk(n)
    \/ \E n \in SdkNames : sync_changed_sdk(n)
    \/ update_sdk_download
    \/ update_sdk_download_fails
    \/ update_sdk_create
    \/ update_sdk_create_fails
    \/ update_sdk_write
    \/ update_sdk_write_fails
    \/ sync_save_state
    \/ sync_save_state_fails
    \/ sync_install_state
    \/ sync_loop_done
    \/ \E n \in SdkNames : sync_remove_sdk(n)
    \/ \E n \in SdkNames : sync_remove_sdk_fails(n)
    \/ sync_evict_memdb
    \/ sync_final_save_state
    \/ sync_final_save_state_fails
    \/ sync_final_install_state
    \/ sync_done

sync == sync_start \/ sync_steps

(***************************************************************************)
(* Stash: get_memdb(info)                                                  *)
(***************************************************************************)
\* info.memdb_filename(): the filename made from the SdkInfo, which for a
\* canonical upstream name is the local filename of the SDK
memdb_filename(info) == info

GetMemDbReturn(r, result, handle, frame) ==
    g' = [g EXCEPT ![r] = [frame EXCEPT !.pc = "done", !.result = result,
                                        !.handle = handle]]

get_memdb_start(r, info) ==
    /\ g[r].pc = "idle"
    /\ g' = [g EXCEPT ![r] = [IdleReader EXCEPT !.pc = "cache", !.info = info,
                                                !.result = "running"]]
    /\ UNCHANGED <<lib_vars, upstream, sync_state_file, files, local_state, memdbs, s, q, h>>

\* self.memdbs.read().unwrap().get(info): a cached MemDb is returned at once
get_memdb_cached(r) ==
    /\ g[r].pc = "cache"
    /\ IF memdbs[g[r].info].open
       THEN GetMemDbReturn(r, "ok", memdbs[g[r].info], g[r])
       ELSE g' = [g EXCEPT ![r].pc = "state"]
    /\ UNCHANGED <<lib_vars, upstream, sync_state_file, files, local_state, memdbs, s, q, h>>

\* the frame after local_state.get_sdk(&filename) on a snapshot of local_state
checked_sdk(frame, state) ==
    [frame EXCEPT !.entry = state.sdks[memdb_filename(frame.info)],
                  !.pc = IF state.sdks[memdb_filename(frame.info)] # NoSdk
                         THEN "open" ELSE "unknown"]

\* get_local_state when local_state is Some, and the get_sdk check
get_memdb_local_state(r) ==
    /\ g[r].pc = "state"
    /\ local_state # <<>>
    /\ g' = [g EXCEPT ![r] = checked_sdk(g[r], local_state[1])]
    /\ UNCHANGED <<lib_vars, upstream, sync_state_file, files, local_state, memdbs, s, q, h>>

\* get_local_state when local_state is None: read_local_state, first half
get_memdb_read_local_state(r) ==
    /\ g[r].pc = "state"
    /\ local_state = <<>>
    /\ g' = [g EXCEPT ![r].pc = "install", ![r].rv = DiskState]
    /\ UNCHANGED <<lib_vars, upstream, sync_state_file, files, local_state, memdbs, s, q, h>>

\* read_local_state, second half
get_memdb_install_state(r) ==
    /\ g[r].pc = "install"
    /\ local_state' = <<g[r].rv>>
    /\ g' = [g EXCEPT ![r].pc = "reread", ![r].rv = DefaultState]
    /\ UNCHANGED <<lib_vars, upstream, sync_state_file, files, memdbs, s, q, h>>

\* self.local_state.read().unwrap().as_ref().unwrap().clone(), and the check
get_memdb_reread_state(r) ==
    /\ g[r].pc = "reread"
    /\ g' = [g EXCEPT ![r] = checked_sdk(g[r], local_state[1])]
    /\ UNCHANGED <<lib_vars, upstream, sync_state_file, files, local_state, memdbs, s, q, h>>

\* Err(ErrorKind::UnknownSdk): the sdk is not in the local state
get_memdb_unknown_sdk(r) ==
    /\ g[r].pc = "unknown"
    /\ GetMemDbReturn(r, "unknown_sdk", NoMemDb, g[r])
    /\ UNCHANGED <<lib_vars, upstream, sync_state_file, files, local_state, memdbs, s, q, h>>

\* MemDb::from_path accepts a file it can map and whose header it can read
can_open(f) == f.exists /\ f.written >= 1

\* MemDb::from_path(self.path.join(&filename))?
get_memdb_from_path(r) ==
    /\ g[r].pc = "open"
    /\ IF can_open(files[g[r].info])
       THEN g' = [g EXCEPT ![r].pc = "insert", ![r].file = files[g[r].info]]
       ELSE GetMemDbReturn(r, "io_err", NoMemDb,
                           [g[r] EXCEPT !.file = files[g[r].info]])
    /\ UNCHANGED <<lib_vars, upstream, sync_state_file, files, local_state, memdbs, s, q, h>>

\* self.memdbs.write().unwrap().insert(info.clone(), Arc::new(memdb))
get_memdb_insert(r) ==
    /\ g[r].pc = "insert"
    /\ memdbs' = [memdbs EXCEPT ![g[r].info] = [open |-> TRUE, by |-> r]]
    /\ g' = [g EXCEPT ![r].pc = "reget"]
    /\ UNCHANGED <<lib_vars, upstream, sync_state_file, files, local_state, s, q, h>>

\* the second self.memdbs.read().unwrap().get(info)
get_memdb_reget(r) ==
    /\ g[r].pc = "reget"
    /\ IF memdbs[g[r].info].open
       THEN GetMemDbReturn(r, "ok", memdbs[g[r].info], g[r])
       ELSE GetMemDbReturn(r, "unknown_sdk", NoMemDb, g[r])
    /\ UNCHANGED <<lib_vars, upstream, sync_state_file, files, local_state, memdbs, s, q, h>>

\* the caller drops the result
get_memdb_done(r) ==
    /\ g[r].pc = "done"
    /\ g' = [g EXCEPT ![r] = IdleReader]
    /\ UNCHANGED <<lib_vars, upstream, sync_state_file, files, local_state, memdbs, s, q, h>>

\* the steps of a get_memdb() call that has started
get_memdb_steps ==
    \E r \in Readers :
        \/ get_memdb_cached(r)
        \/ get_memdb_local_state(r)
        \/ get_memdb_read_local_state(r)
        \/ get_memdb_install_state(r)
        \/ get_memdb_reread_state(r)
        \/ get_memdb_unknown_sdk(r)
        \/ get_memdb_from_path(r)
        \/ get_memdb_insert(r)
        \/ get_memdb_reget(r)
        \/ get_memdb_done(r)

get_memdb ==
    \/ \E r \in Callers, info \in SdkNames : get_memdb_start(r, info)
    \/ get_memdb_steps

\* lookup_symbol_handler up to its first lc.get_memdb(sdk_info): info is a
\* candidate fuzzy_match_sdk_id returned from a loaded local_state, and the
\* request-local cache is empty
lookup_symbol_match(r, info) ==
    /\ g[r].pc = "idle"
    /\ local_state # <<>>
    /\ local_state[1].sdks[info] # NoSdk
    /\ g' = [g EXCEPT ![r] = [IdleReader EXCEPT !.pc = "cache", !.info = info,
                                                !.result = "running",
                                                !.matched = TRUE]]
    /\ UNCHANGED <<lib_vars, upstream, sync_state_file, files, local_state, memdbs, s, q, h>>

(***************************************************************************)
(* Stash: get_sync_status()                                                *)
(***************************************************************************)
\* the counts get_sync_status computes from the local and the remote state
\* a status that counts every upstream SDK with a local entry as up to date
sync_status_by_name(local, remote) ==
    [remote_total |-> Cardinality(keys(remote.sdks)),
     missing |-> Cardinality({n \in keys(remote.sdks) : local.sdks[n] = NoSdk}),
     different |-> 0,
     revision |-> unwrap_or_0(local.revision),
     offline |-> FALSE]

sync_status(local, remote) ==
    [remote_total |-> Cardinality(keys(remote.sdks)),
     missing |-> Cardinality({n \in keys(remote.sdks) : local.sdks[n] = NoSdk}),
     different |-> Cardinality({n \in keys(remote.sdks) :
                                   /\ local.sdks[n] # NoSdk
                                   /\ local.sdks[n] # remote.sdks[n]}),
     revision |-> unwrap_or_0(local.revision),
     offline |-> FALSE]

\* the status of an empty upstream listing
empty_status(local) ==
    [remote_total |-> 0, missing |-> 0, different |-> 0,
     revision |-> unwrap_or_0(local.revision), offline |-> FALSE]

\* the status when fetch_remote_state fails
offline_status(local) ==
    [remote_total |-> 0, missing |-> 0, different |-> 0,
     revision |-> unwrap_or_0(local.revision), offline |-> TRUE]

get_sync_status_start ==
    /\ q.pc = "idle"
    /\ q' = [IdleStatus EXCEPT !.pc = "read_disk", !.result = "running"]
    /\ UNCHANGED <<lib_vars, upstream, sync_state_file, files, local_state, memdbs, s, g, h>>

\* read_local_state, first half
get_sync_status_read_local_state ==
    /\ q.pc = "read_disk"
    /\ q' = [q EXCEPT !.pc = "install", !.local = DiskState]
    /\ UNCHANGED <<lib_vars, upstream, sync_state_file, files, local_state, memdbs, s, g, h>>

\* read_local_state, second half
get_sync_status_install_state ==
    /\ q.pc = "install"
    /\ local_state' = <<q.local>>
    /\ q' = [q EXCEPT !.pc = "fetch"]
    /\ UNCHANGED <<lib_vars, upstream, sync_state_file, files, memdbs, s, g, h>>

\* `if let Ok(remote_state) = self.fetch_remote_state()` and the counting
get_sync_status_fetch ==
    /\ q.pc = "fetch"
    /\ q' = [q EXCEPT !.pc = "done", !.result = "ok",
                      !.remote = <<fetch_remote_state>>,
                      !.status = sync_status(q.local, fetch_remote_state)]
    /\ UNCHANGED <<lib_vars, upstream, sync_state_file, files, local_state, memdbs, s, g, h>>

\* the else branch: offline = true
get_sync_status_offline ==
    /\ q.pc = "fetch"
    /\ q' = [q EXCEPT !.pc = "done", !.result = "ok",
                      !.status = offline_status(q.local)]
    /\ UNCHANGED <<lib_vars, upstream, sync_state_file, files, local_state, memdbs, s, g, h>>

\* the caller drops the status
get_sync_status_done ==
    /\ q.pc = "done"
    /\ q' = IdleStatus
    /\ UNCHANGED <<lib_vars, upstream, sync_state_file, files, local_state, memdbs, s, g, h>>

\* the steps of a get_sync_status() call that has started
get_sync_status_steps ==
    \/ get_sync_status_read_local_state
    \/ get_sync_status_install_state
    \/ get_sync_status_fetch
    \/ get_sync_status_offline
    \/ get_sync_status_done

get_sync_status == get_sync_status_start \/ get_sync_status_steps

(***************************************************************************)
(* Stash: get_revision()                                                   *)
(***************************************************************************)
\* the call runs in the frame q; h.last_revision is the value the latest
\* call returned (0 before the first)
get_revision_start ==
    /\ q.pc = "idle"
    /\ q' = [IdleStatus EXCEPT !.pc = "rev_read_disk", !.result = "running"]
    /\ UNCHANGED <<lib_vars, upstream, sync_state_file, files, local_state, memdbs, s, g, h>>

\* read_local_state, first half
get_revision_read_local_state ==
    /\ q.pc = "rev_read_disk"
    /\ q' = [q EXCEPT !.pc = "rev_install", !.local = DiskState]
    /\ UNCHANGED <<lib_vars, upstream, sync_state_file, files, local_state, memdbs, s, g, h>>

\* read_local_state, second half, and Ok(revision.unwrap_or(0))
get_revision_install_state ==
    /\ q.pc = "rev_install"
    /\ local_state' = <<q.local>>
    /\ q' = [q EXCEPT !.pc = "rev_done", !.result = "ok",
                      !.status.revision = unwrap_or_0(q.local.revision)]
    /\ h' = [h EXCEPT !.last_revision = unwrap_or_0(q.local.revision)]
    /\ UNCHANGED <<lib_vars, upstream, sync_state_file, files, memdbs, s, g>>

\* the caller drops the revision
get_revision_done ==
    /\ q.pc = "rev_done"
    /\ q' = IdleStatus
    /\ UNCHANGED <<lib_vars, upstream, sync_state_file, files, local_state, memdbs, s, g, h>>

get_revision_steps ==
    \/ get_revision_read_local_state
    \/ get_revision_install_state
    \/ get_revision_done


(***************************************************************************)
(* Stash: properties                                                       *)
(***************************************************************************)
\* sync() has just returned `result` ("ok" or "err")
SyncReturned(result) == s.pc = "done" /\ h.result = result

\* the revision of sync.state as get_revision reads it
DiskRevision == unwrap_or_0(DiskState.revision)

\* C11: across successful and failed sync() calls made one at a time, the
\* revision persisted in sync.state never decreases, and get_revision()
\* never returns less than an earlier get_revision() returned.
C11_RevisionMonotone ==
    [][/\ DiskRevision' >= DiskRevision
       /\ h'.last_revision >= h.last_revision]_vars

\* get_revision() returned a greater value than the call before it, with a
\* failed sync() in between that had raised the persisted revision
C11_Witness ==
    /\ q.pc = "rev_done"
    /\ q.status.revision >= 2
    /\ h.last_revision = q.status.revision
    /\ h.syncs >= 2
    /\ ~h.unchanged_since_ok

\* a get_sync_status() call is between its first step and its return
StatusCallRunning == q.pc \in {"read_disk", "install", "fetch", "done"}

\* C18: get_sync_status() returns remote_total = the number of upstream
\* SDKs, missing = the number of them without a local entry, different =
\* the number of them whose local entry differs, and the persisted
\* revision; offline is true, with the three counts 0, exactly when the
\* fetch of the listing failed; the call changes neither sync.state nor a
\* MemDB file nor the cache of open MemDBs.
C18_SyncStatusCounts ==
    /\ [](q.pc = "done" =>
            /\ q.status.offline <=> q.remote = <<>>
            /\ q.status.revision = DiskRevision
            /\ IF q.remote = <<>>
               THEN /\ q.status.remote_total = 0
                    /\ q.status.missing = 0
                    /\ q.status.different = 0
               ELSE /\ q.status.remote_total
                         = Cardinality({n \in SdkNames : q.remote[1].sdks[n] # NoSdk})
                    /\ q.status.missing
                         = Cardinality({n \in SdkNames :
                                           /\ q.remote[1].sdks[n] # NoSdk
                                           /\ DiskState.sdks[n] = NoSdk})
                    /\ q.status.different
                         = Cardinality({n \in SdkNames :
                                           /\ q.remote[1].sdks[n] # NoSdk
                                           /\ DiskState.sdks[n] # NoSdk
                                           /\ DiskState.sdks[n] # q.remote[1].sdks[n]}))
    /\ [][StatusCallRunning => UNCHANGED <<sync_state_file, files, memdbs>>]_vars

\* get_sync_status() returned, after a sync and a change upstream, a status
\* of two upstream SDKs, one missing and one different, at revision >= 1
C18_Witness ==
    /\ q.pc = "done"
    /\ ~q.status.offline
    /\ q.status.remote_total = 2
    /\ q.status.missing = 1
    /\ q.status.different = 1
    /\ q.status.revision >= 1

\* C20: when the upstream listing cannot be fetched, sync() returns an
\* error without downloading or deleting a file, without changing
\* sync.state and without evicting a cached MemDB, whereas
\* get_sync_status() then returns Ok with offline = true.
C20_FetchFailure ==
    /\ [](/\ (SyncReturned("err") /\ h.failed_at = "fetch") =>
               /\ h.downloaded = {}
               /\ h.deleted = {}
               /\ DiskState = h.start
          /\ (q.pc = "done" /\ q.remote = <<>>) =>
               /\ q.result = "ok"
               /\ q.status.offline)
    /\ [][s.pc \in {"read_disk", "install_read", "fetch"} =>
            UNCHANGED <<sync_state_file, files, memdbs>>]_vars

\* a sync() that failed to fetch the listing returned its error, with SDKs
\* in the local state, their files present and one of them cached
C20_Witness ==
    /\ SyncReturned("err") /\ h.failed_at = "fetch"
    /\ \E n \in SdkNames :
          /\ DiskState.sdks[n] # NoSdk
          /\ files[n].exists
          /\ memdbs[n] # NoMemDb

\* C3: after sync() returns Ok against an unchanged upstream listing R, the
\* persisted and the in-memory state list exactly R, the file of every SDK
\* of R exists, the file of every SDK that was local and is not in R is
\* gone, and a following get_sync_status() reports missing = 0 and
\* different = 0.
C3_SyncPostcondition ==
    /\ SyncReturned("ok") =>
          /\ DiskState.sdks = upstream
          /\ local_state # <<>>
          /\ local_state[1].sdks = upstream
          /\ \A n \in keys(upstream) : files[n].exists
          /\ \A n \in keys(h.start.sdks) \ keys(upstream) : ~files[n].exists
    /\ (q.pc = "done" /\ h.unchanged_since_ok /\ ~q.status.offline) =>
          /\ q.status.missing = 0
          /\ q.status.different = 0

\* C4: once the sync that deletes an SDK has completed (no sync is running
\* and neither the persisted nor the in-memory state lists the SDK), the
\* cache of open MemDBs holds no entry for it, so that no get_memdb returns
\* a handle for it.
C4_NoHandleForRemovedSdk ==
    \A n \in SdkNames :
        (/\ s.pc \in {"idle", "done"}
         /\ DiskState.sdks[n] = NoSdk
         /\ local_state # <<>>
         /\ local_state[1].sdks[n] = NoSdk)
        => ~memdbs[n].open

\* get_memdb of reader r found the SDK in the local state and went on to
\* open its file
Observed(r) == g[r].entry # NoSdk /\ g[r].pc \in {"insert", "reget", "done"}

\* C5: a get_memdb that runs while sync() runs sees, for its SDK, a state
\* entry together with the complete file of that entry: never a state entry
\* whose file is missing, partially written or of another version.
C5_AtomicView ==
    \A r \in Readers :
        Observed(r) => IsComplete(g[r].file) /\ g[r].file.etag = g[r].entry

\* C6: once a MemDB file exists under its final name its bytes never
\* change; it can only be deleted.  (Every step of sync that changes an
\* existing file writes it in place: no MemDB file is ever renamed.)
C6_PublishedFilesImmutable ==
    [][\A n \in SdkNames :
          (files[n].exists /\ files'[n].exists) => files'[n] = files[n]]_vars

\* the persisted state lists every SDK this sync has downloaded, as
\* upstream has it, and none this sync has deleted
PersistedPrefix ==
    /\ \A n \in h.downloaded : DiskState.sdks[n] = upstream[n]
    /\ \A n \in h.deleted : DiskState.sdks[n] = NoSdk

\* C7: within sync(), sync.state is persisted after each SDK add, replace
\* or delete before the next SDK is processed; so when sync aborts with an
\* error, the persisted state lists no SDK whose file this sync has deleted
\* and every SDK this sync has downloaded.  (An abort by the failure of the
\* write of sync.state itself is left out: no order of the steps could
\* persist that change.)
C7_PersistedAfterEachChange ==
    /\ (s.pc = "loop" /\ s.todo # {}) => PersistedPrefix
    /\ (s.pc = "delete" /\ s.del_todo # {}) => PersistedPrefix
    /\ (SyncReturned("err") /\ h.failed_at \notin {"save", "final_save"})
       => PersistedPrefix

\* C8: when a download fails after the destination file was created, the
\* partially written file is deleted before the error is returned: a failed
\* download leaves no partial MemDB file in the symbol directory.
C8_NoPartialFileAfterFailedDownload ==
    (SyncReturned("err") /\ h.failed_at \in {"download", "create", "write"})
    => \A n \in SdkNames : ~IsPartial(files[n])

\* C9: after any sequence of sync() calls from an empty stash, the
\* persisted revision equals the number of SDK add, replace and delete
\* operations those syncs applied.
C9_RevisionCountsOperations ==
    s.pc \in {"idle", "done"} => unwrap_or_0(DiskState.revision) = h.applied

\* C10: a sync() that follows a successful sync() with the upstream listing
\* unchanged downloads nothing, deletes nothing and leaves sync.state as
\* the first call left it, revision included.
C10_IdempotentSync ==
    (SyncReturned("ok") /\ h.second) =>
        /\ h.downloaded = {}
        /\ h.deleted = {}
        /\ DiskState = h.start



(***************************************************************************)
(* utils: binsearch_by_key                                                 *)
(***************************************************************************)
Max(S) == CHOOSE x \in S : \A y \in S : y <= x

\* Option<T>: <<>> for None, <<x>> for Some(x)
None == <<>>

Some(x) == <<x>>

Keys == 0..MaxKey

\* the slices binsearch_by_key is called with: sorted by key
SortedSlices ==
    {sl \in UNION {[1..n -> Keys] : n \in 0..MaxLen} :
        \A i \in 1..(Len(sl) - 1) : sl[i] <= sl[i + 1]}

\* the variant of the comparison that also goes left on an equal key
item_le(item, key) == item <= key

\* `item < f(cur_item)`: the search goes on in the lower half
item_lt(item, key) == item < key

\* the while loop of binsearch_by_key over the keys f(slice[0..]); low and
\* high are the 0-based indices of the code; the value is the final low
RECURSIVE binsearch_loop(_, _, _, _)
binsearch_loop(ks, item, low, high) ==
    IF low < high
    THEN LET mid == (low + high) \div 2
             cur_item == ks[mid + 1]
         IN  IF item_lt(item, cur_item)
             THEN binsearch_loop(ks, item, low, mid)
             ELSE binsearch_loop(ks, item, mid + 1, high)
    ELSE low

\* binsearch_by_key(slice, item, f): Some(&slice[low - 1]) or None.  ks is
\* the sequence of the keys f(slice[i]) of the slice; the reference returned
\* is modelled by the 1-based position of the item in the slice
binsearch_by_key(ks, item) ==
    LET low == binsearch_loop(ks, item, 0, Len(ks))
    IN  IF low > 0 /\ low <= Len(ks) THEN Some(low) ELSE None

NoSearch == [pc |-> "idle", slice |-> <<>>, item |-> 0, result |-> None]

\* the calls binsearch_by_key(&slice[..], item, |&x| x), as test_binsearch
\* makes one
binsearch_inputs ==
    {[pc |-> "call", slice |-> sl, item |-> k, result |-> None] :
        sl \in SortedSlices, k \in 0..(MaxKey + 1)}

binsearch_call ==
    /\ bin.pc = "call"
    /\ bin' = [bin EXCEPT !.pc = "returned",
                          !.result = binsearch_by_key(bin.slice, bin.item)]
    /\ UNCHANGED <<stash_vars, more_vars, db, rd, srv>>

\* C2: binsearch_by_key over a slice sorted by key returns the item with
\* the greatest key <= the requested one (the last such item of the slice):
\* the item itself at an exactly recorded key, the item at a_i for
\* a_i < item < a_{i+1}, and None when the item is below the smallest key
\* or the slice is empty.
C2_BinsearchGreatestLeq ==
    bin.pc = "returned" =>
        LET below == {i \in 1..Len(bin.slice) : bin.slice[i] <= bin.item}
        IN  IF below = {} THEN bin.result = None
            ELSE bin.result = Some(Max(below))

\* a search strictly between two adjacent recorded keys of a slice with
\* repeated keys returned the item at the lower one
C2_Witness ==
    /\ bin.pc = "returned"
    /\ bin.result # None
    /\ bin.result[1] < Len(bin.slice)
    /\ bin.slice[bin.result[1]] < bin.item
    /\ bin.item < bin.slice[bin.result[1] + 1]
    /\ bin.result[1] > 1
    /\ bin.slice[bin.result[1] - 1] = bin.slice[bin.result[1]]

\* a search below the smallest key of a non-empty slice returned None
C2_WitnessBelow ==
    /\ bin.pc = "returned"
    /\ bin.slice # <<>>
    /\ bin.item < bin.slice[1]
    /\ bin.result = None


(***************************************************************************)
(* memdb/write.rs: MemDbBuilder                                            *)
(***************************************************************************)
Uuids == {1, 2}

\* Variant.uuid() of a variant without LC_UUID
NoUuid == 0

SymbolNames == {"f", "g"}

ObjectNames == {"x", "y"}

Archs == {"arm64"}

\* the symbols iterator of a variant: (addr, name) pairs in iteration
\* order, the addresses at or above the text vmaddr, repeats included
SymbolLists(vmaddr) ==
    UNION {[1..n -> [addr : {vmaddr + o : o \in 0..MaxOff}, name : SymbolNames]] :
              n \in 0..MaxSymbols}

\* the variants the writer is given; name is variant.name().or(filename)
Variants ==
    [uuid : {NoUuid} \cup Uuids, arch : Archs, name : ObjectNames,
     vmaddr : {VmBase}, vmsize : 0..MaxSize, symbols : SymbolLists(VmBase)]

\* sym_id of the end marker: IndexItem::new(.., None)
NoSym == -1

\* IndexItem::new(addr, src_id, sym_id); addresses stay below 2^48 here
IndexItem_new(addr, src_id, sym_id) ==
    [addr |-> addr, src_id |-> src_id, sym_id |-> sym_id]

\* the keys |item| item.addr() of the items of an index
addrs(index) == [i \in 1..Len(index) |-> index[i].addr]

IndexedUuid_new(uuid, idx) == [uuid |-> uuid, idx |-> idx]

\* the keys |x| x.uuid of a uuid table, |&(_, b)| b of the tagged names
uuids_of(sq) == [i \in 1..Len(sq) |-> sq[i].uuid]

\* 0-based position of x in the list, as symbols_map / object_names_map
\* record it
position(list, x) == (CHOOSE i \in 1..Len(list) : list[i] = x) - 1

contains(list, x) == \E i \in 1..Len(list) : list[i] = x

\* slice::sort_by_key: a stable sort, items of equal key keep their order;
\* ks is the sequence of the keys of the items of sq
sort_by_key(sq, ks) ==
    LET n == Len(sq)
        rank(i) == Cardinality({j \in 1..n : \/ ks[j] < ks[i]
                                             \/ ks[j] = ks[i] /\ j < i})
    IN  [p \in 1..n |-> sq[CHOOSE i \in 1..n : rank(i) + 1 = p]]

\* MemDbBuilder::new
NewBuilder ==
    [symbols |-> <<>>, object_names |-> <<>>, object_uuid_mapping |-> <<>>,
     variant_uuids |-> <<>>, variant_uuids_seen |-> {}, variants |-> <<>>,
     symbol_count |-> 0]

\* add_symbol: the list of symbols after interning sym
add_symbol(symbols, sym) ==
    IF contains(symbols, sym) THEN symbols ELSE Append(symbols, sym)

\* add_object_name: the list of object names after interning src
add_object_name(object_names, src) ==
    IF contains(object_names, src) THEN object_names ELSE Append(object_names, src)

\* the (tagged name, uuid) pair of a variant
tagged_object(src, arch, uuid) == [name |-> <<src, arch>>, uuid |-> uuid]

\* the symbol loop of write_object_variant: the symbols interned and the
\* index built from the first k symbols of the iterator
RECURSIVE build_symbol_index(_, _, _, _, _)
build_symbol_index(symbols, syms, vmaddr, src_id, k) ==
    IF k = 0 THEN [symbols |-> symbols, index |-> <<>>]
    ELSE LET before == build_symbol_index(symbols, syms, vmaddr, src_id, k - 1)
             interned == add_symbol(before.symbols, syms[k].name)
             sym_id == position(interned, syms[k].name)
         IN  [symbols |-> interned,
              index |-> Append(before.index,
                               IndexItem_new(syms[k].addr - vmaddr, src_id, sym_id))]

\* the index of a variant left as the symbol loop and the end marker built it
unsorted_index(index) == index

\* index.sort_by_key(|item| item.addr())
sorted_index(index) == sort_by_key(index, addrs(index))

\* the index of a variant without an end marker, whatever its vmsize
never_marked(index, vmsize, src_id) == index

\* if var.vmsize() > 0 { index.push(IndexItem::new(var.vmsize(), src_id, None)) }
end_marked(index, vmsize, src_id) ==
    IF vmsize > 0 THEN Append(index, IndexItem_new(vmsize, src_id, NoSym))
    ELSE index

write_object_variant(b, var, uuid, src) ==
    LET mapping == Append(b.object_uuid_mapping, tagged_object(src, var.arch, uuid))
    IN  IF uuid \in b.variant_uuids_seen
        THEN [b EXCEPT !.object_uuid_mapping = mapping]
        ELSE LET object_names == add_object_name(b.object_names, src)
                 src_id == position(object_names, src)
                 built == build_symbol_index(b.symbols, var.symbols, var.vmaddr,
                                             src_id, Len(var.symbols))
                 marked == end_marked(built.index, var.vmsize, src_id)
             IN  [symbols |-> built.symbols,
                  object_names |-> object_names,
                  object_uuid_mapping |-> mapping,
                  variant_uuids |-> Append(b.variant_uuids,
                                           IndexedUuid_new(uuid, Len(b.variants))),
                  variant_uuids_seen |-> b.variant_uuids_seen \cup {uuid},
                  variants |-> Append(b.variants, sorted_index(marked)),
                  symbol_count |-> b.symbol_count + Len(marked)]

\* the body of the loop of write_object for one variant of the object
write_object_body(b, var) ==
    IF var.uuid # NoUuid THEN write_object_variant(b, var, var.uuid, var.name)
    ELSE b

\* the content of the file flush writes, region by region
flushed_file(b) ==
    [version |-> 2,
     variants |-> b.variants,
     uuids |-> sort_by_key(b.variant_uuids, uuids_of(b.variant_uuids)),
     tagged_object_names |->
         LET sorted == sort_by_key(b.object_uuid_mapping,
                                 uuids_of(b.object_uuid_mapping))
         IN  [i \in 1..Len(sorted) |-> sorted[i].name],
     object_names |-> b.object_names,
     symbols |-> b.symbols]

NoFileContent ==
    [version |-> 0, variants |-> <<>>, uuids |-> <<>>,
     tagged_object_names |-> <<>>, object_names |-> <<>>, symbols |-> <<>>]


(***************************************************************************)
(* memdb/read.rs: MemDb (the reader of the files the builder writes)       *)
(***************************************************************************)
\* the version of the format the reader accepts
AcceptedVersion == 2

\* the index of the variant with this uuid: binary search of the uuid table
get_index(file, uuid) ==
    LET found == binsearch_by_key(uuids_of(file.uuids), uuid)
    IN  IF found # None /\ file.uuids[found[1]].uuid = uuid
        THEN Some(file.variants[file.uuids[found[1]].idx + 1])
        ELSE None

index_item_to_symbol(file, item) ==
    [object_name |-> file.object_names[item.src_id + 1],
     symbol |-> file.symbols[item.sym_id + 1],
     addr |-> item.addr]

\* lookup_by_uuid(uuid, addr): the greatest item with addr <= the requested
\* one, unless it is the end marker
lookup_by_uuid(file, uuid, addr) ==
    LET index == get_index(file, uuid)
    IN  IF index = None THEN None
        ELSE LET found == binsearch_by_key(addrs(index[1]), addr)
             IN  IF found = None THEN None
                 ELSE IF index[1][found[1]].sym_id = NoSym THEN None
                 ELSE Some(index_item_to_symbol(file, index[1][found[1]]))

\* the uuid of (name, arch): the position of the first tagged object name
\* equal to "<name>:<arch>" indexes the uuid table; None when no record is
\* equal or the position lies beyond the table
find_uuid(file, name, arch) ==
    LET at == {i \in 1..Len(file.tagged_object_names) :
                  file.tagged_object_names[i] = <<name, arch>>}
    IN  IF at = {} THEN None
        ELSE LET first == CHOOSE i \in at : \A j \in at : i <= j
             IN  IF first <= Len(file.uuids) THEN Some(file.uuids[first].uuid)
                 ELSE None

\* lookup_by_object_name(name, arch, addr): resolve the uuid, then the uuid path
lookup_by_object_name(file, name, arch, addr) ==
    LET uuid == find_uuid(file, name, arch)
    IN  IF uuid = None THEN None ELSE lookup_by_uuid(file, uuid[1], addr)

(***************************************************************************)
(* dump_memdb, then lookups in the file                                    *)
(***************************************************************************)
\* indexed (for the properties only): for each uuid the variant the writer
\* indexed for it, None when it indexed none
NoDb == [pc |-> "idle", builder |-> NewBuilder, file |-> NoFileContent,
         indexed |-> [u \in Uuids |-> None], query |-> None, result |-> None,
         named |-> None]

NewDb == [NoDb EXCEPT !.pc = "building"]

\* write_object for the next variant of the objects of the SDK
write_object ==
    /\ db.pc = "building"
    /\ Len(db.builder.object_uuid_mapping) < MaxVariants
    /\ \E var \in Variants :
          db' = [db EXCEPT
                   !.builder = write_object_body(db.builder, var),
                   !.indexed = IF var.uuid = NoUuid
                                  \/ var.uuid \in db.builder.variant_uuids_seen
                               THEN db.indexed
                               ELSE [db.indexed EXCEPT ![var.uuid] = Some(var)]]
    /\ UNCHANGED <<stash_vars, more_vars, bin, rd, srv>>

\* flush sorts the uuid table and the tagged names in place and writes the file
flush ==
    /\ db.pc = "building"
    /\ db' = [db EXCEPT
                !.pc = "flushed",
                !.file = flushed_file(db.builder),
                !.builder.variant_uuids =
                    sort_by_key(db.builder.variant_uuids,
                                uuids_of(db.builder.variant_uuids)),
                !.builder.object_uuid_mapping =
                    sort_by_key(db.builder.object_uuid_mapping,
                                uuids_of(db.builder.object_uuid_mapping))]
    /\ UNCHANGED <<stash_vars, more_vars, bin, rd, srv>>

\* the file is opened (its version accepted) and an address looked up, once
\* per file: the reader keeps no state between lookups
lookup ==
    /\ db.pc = "flushed"
    /\ db.query = None /\ db.named = None
    /\ db.file.version = AcceptedVersion
    /\ \E uuid \in Uuids, addr \in 0..(MaxOff + 1) :
          db' = [db EXCEPT !.query = Some([uuid |-> uuid, addr |-> addr]),
                           !.result = lookup_by_uuid(db.file, uuid, addr),
                           !.named = None]
    /\ UNCHANGED <<stash_vars, more_vars, bin, rd, srv>>

\* the file is opened and an address looked up by object name and arch;
\* named keeps the query, the uuid it resolved to and the result
lookup_named ==
    /\ db.pc = "flushed"
    /\ db.query = None /\ db.named = None
    /\ db.file.version = AcceptedVersion
    /\ \E name \in ObjectNames, arch \in Archs, addr \in 0..(MaxOff + 1) :
          db' = [db EXCEPT
                   !.named = Some([name |-> name, arch |-> arch, addr |-> addr,
                                   uuid |-> find_uuid(db.file, name, arch),
                                   result |-> lookup_by_object_name(db.file, name,
                                                                    arch, addr)]),
                   !.query = None,
                   !.result = None]
    /\ UNCHANGED <<stash_vars, more_vars, bin, rd, srv>>

\* a lookup was made at the stored address of a symbol the writer indexed
LookedUp == db.pc = "flushed" /\ db.query # None

\* the positions, in iteration order, of the symbols the writer indexed for
\* the uuid of the lookup at the address of the lookup
IndexedAt ==
    LET var == db.indexed[db.query[1].uuid]
    IN  IF var = None THEN {}
        ELSE {i \in 1..Len(var[1].symbols) :
                 var[1].symbols[i].addr - var[1].vmaddr = db.query[1].addr}

IndexedSymbol(i) == db.indexed[db.query[1].uuid][1].symbols[i]

Queried == db.indexed[db.query[1].uuid][1]

\* a lookup was made at or beyond the vmsize of a variant the writer indexed
LookedUpBeyond ==
    /\ LookedUp
    /\ db.indexed[db.query[1].uuid] # None
    /\ db.query[1].addr >= Queried.vmsize

\* the positions of the symbols of the queried variant at relative addresses
\* in lo..hi
SymbolsWithin(lo, hi) ==
    {i \in 1..Len(Queried.symbols) :
        /\ Queried.symbols[i].addr - Queried.vmaddr >= lo
        /\ Queried.symbols[i].addr - Queried.vmaddr <= hi}

C13_StrictlyIncreasing ==
    \A v \in 1..Len(db.builder.variants) :
        \A i, j \in 1..Len(db.builder.variants[v]) :
            i < j => db.builder.variants[v][i].addr < db.builder.variants[v][j].addr

\* C13 (amended): the stored IndexItem slice of every variant has
\* non-decreasing addresses, end marker included; items of equal address
\* keep the order of the symbol iterator, the end marker after the symbols
\* at the address vmsize.
C13_NonDecreasing ==
    \A v \in 1..Len(db.builder.variants) :
        \A i, j \in 1..Len(db.builder.variants[v]) :
            i < j =>
              /\ db.builder.variants[v][i].addr <= db.builder.variants[v][j].addr
              /\ db.builder.variants[v][i].sym_id = NoSym =>
                    db.builder.variants[v][i].addr < db.builder.variants[v][j].addr

\* the file holds a variant whose symbols came in decreasing order of
\* address, the lower one at the address of the end marker: stored as that
\* symbol, the end marker, the higher symbol
C13_Witness ==
    /\ db.pc = "flushed"
    /\ \E u \in Uuids :
          /\ db.indexed[u] # None
          /\ Len(db.indexed[u][1].symbols) = 2
          /\ db.indexed[u][1].symbols[1].addr > db.indexed[u][1].symbols[2].addr
          /\ db.indexed[u][1].symbols[2].addr - db.indexed[u][1].vmaddr
               = db.indexed[u][1].vmsize
          /\ db.indexed[u][1].vmsize > 0
          /\ LET index == get_index(db.file, u)[1]
             IN  /\ Len(index) = 3
                 /\ index[1].addr = index[2].addr
                 /\ index[1].sym_id # NoSym
                 /\ index[2].sym_id = NoSym
                 /\ index[3].addr > index[2].addr

\* the uuids the writer recorded the tagged name with
RecordedWith(tagged) ==
    {db.builder.object_uuid_mapping[i].uuid :
        i \in {j \in 1..Len(db.builder.object_uuid_mapping) :
                  db.builder.object_uuid_mapping[j].name = tagged}}

\* C14: in every file the writer produces the uuid table is sorted
\* ascending by uuid, the tagged object names are exactly uuids_count
\* records, and the i-th record is a "<name>:<arch>" recorded with the
\* i-th uuid of the table, also when a uuid is encountered more than once.
C14_TaggedNamesParallel ==
    db.pc = "flushed" =>
        /\ \A i, j \in 1..Len(db.file.uuids) :
              i < j => db.file.uuids[i].uuid < db.file.uuids[j].uuid
        /\ Len(db.file.tagged_object_names) = Len(db.file.uuids)
        /\ \A i \in 1..Len(db.file.uuids) :
              db.file.uuids[i].uuid \in RecordedWith(db.file.tagged_object_names[i])

\* C15: a uuid encountered several times is indexed once (one entry of the
\* uuid table, one slice), and for every alias (name, arch) the writer
\* recorded, lookup_by_object_name(name, arch, addr) resolves to a uuid the
\* alias was recorded with and returns what lookup_by_uuid(that uuid, addr)
\* returns.
C15_AliasesResolve ==
    db.pc = "flushed" =>
        /\ Len(db.file.variants) = Len(db.file.uuids)
        /\ \A u \in db.builder.variant_uuids_seen :
              Cardinality({i \in 1..Len(db.file.uuids) : db.file.uuids[i].uuid = u}) = 1
        /\ (db.named # None
             /\ RecordedWith(<<db.named[1].name, db.named[1].arch>>) # {}) =>
              /\ db.named[1].uuid # None
              /\ db.named[1].uuid[1]
                   \in RecordedWith(<<db.named[1].name, db.named[1].arch>>)
              /\ db.named[1].result
                   = lookup_by_uuid(db.file, db.named[1].uuid[1], db.named[1].addr)


(***************************************************************************)
(* memdb.rs: MemDb over a byte buffer.  Lengths and offsets are in units   *)
(* of 4 bytes; the bytes of the buffer are arbitrary, so every value read  *)
(* from it is any value.                                                   *)
(***************************************************************************)
\* mem::size_of of MemDbHeader, Uuid, StoredSlice, IndexItem
HeaderSize == 11

UuidSize == 4

StoredSliceSize == 2

IndexItemSize == 3

\* usize counts modulo 2^UsizeBits; it is wider than the u32 fields of a file
UsizeBits == 16

UsizeMod == 2 ^ UsizeBits

\* the lengths of the buffers: empty, cut within the header, header and body
BufferLens == {0, HeaderSize - 1} \cup (HeaderSize..(HeaderSize + MaxBody))

\* the offsets a header or a StoredSlice of the buffer holds
Offsets == {HeaderSize, HeaderSize + MaxBody}

Headers ==
    [variants_start : Offsets, variants_count : 0..MaxCount,
     uuids_start : Offsets, uuids_count : 0..MaxCount,
     object_names_start : Offsets, object_names_count : 0..MaxCount,
     symbols_start : Offsets, symbols_count : 0..MaxCount]

NoHeader ==
    [variants_start |-> 0, variants_count |-> 0, uuids_start |-> 0,
     uuids_count |-> 0, object_names_start |-> 0, object_names_count |-> 0,
     symbols_start |-> 0, symbols_count |-> 0]

NoItem == [src_id |-> 0, sym_id |-> 0]

NoReader ==
    [pc |-> "idle", len |-> 0, header |-> NoHeader, count |-> 0,
     item |-> NoItem, outcome |-> "none"]

\* get_data(start, len) on a buffer of buffer_len: TRUE for Ok(&buffer[start..end]),
\* FALSE for Err(BadMemDb)
get_data(buffer_len, start, len) ==
    LET end == (start + len) % UsizeMod
    IN  ~(end < start \/ end > buffer_len)

\* get_slice::<T>(offset, count) with size = mem::size_of::<T>()
get_slice(buffer_len, offset, count, size) ==
    get_data(buffer_len, offset, (count * size) % UsizeMod)

ReaderReturn(outcome) == [NoReader EXCEPT !.pc = "done", !.outcome = outcome]

\* MemDb::from_slice(buffer): verify_version reads the header
from_slice ==
    /\ rd.pc = "idle"
    /\ \E len \in BufferLens, version \in {1, 2}, header \in Headers :
          rd' = IF ~get_data(len, 0, HeaderSize) THEN ReaderReturn("BadMemDb")
                ELSE IF version # 1 THEN ReaderReturn("UnsupportedMemDbVersion")
                ELSE [NoReader EXCEPT !.pc = "open", !.len = len, !.header = header]
    /\ UNCHANGED <<stash_vars, more_vars, bin, db, srv>>

\* lookup_by_uuid: get_index(uuid).  The uuid is found at position idx of the
\* uuid table or (idx = uuids_count) nowhere; the StoredSlice at that
\* position of the variants table holds any offset and length
lookup_get_index ==
    /\ rd.pc = "open"
    /\ \E idx \in 0..rd.header.uuids_count, offset \in Offsets,
          length \in 0..(IndexItemSize * MaxCount) :
          rd' = IF ~get_slice(rd.len, rd.header.uuids_start,
                              rd.header.uuids_count, UuidSize)
                THEN ReaderReturn("BadMemDb")
                ELSE IF idx = rd.header.uuids_count THEN ReaderReturn("Ok")
                ELSE IF ~get_slice(rd.len, rd.header.variants_start,
                                   rd.header.variants_count, StoredSliceSize)
                THEN ReaderReturn("BadMemDb")
                ELSE IF ~(idx < rd.header.variants_count) THEN ReaderReturn("panic")
                ELSE IF ~get_data(rd.len, offset, length) THEN ReaderReturn("BadMemDb")
                ELSE [rd EXCEPT !.pc = "search", !.count = length \div IndexItemSize]
    /\ UNCHANGED <<stash_vars, more_vars, bin, db, srv>>

\* lookup_by_uuid: the binary search of the index ends at any low in
\* 0..index.len(); the item at low - 1 holds any src_id and sym_id
lookup_search ==
    /\ rd.pc = "search"
    /\ \E low \in 0..rd.count, src_id \in 0..MaxCount, sym_id \in 0..MaxCount :
          rd' = IF low > 0 /\ low <= rd.count
                THEN [rd EXCEPT !.pc = "symbol",
                                !.item = [src_id |-> src_id, sym_id |-> sym_id]]
                ELSE ReaderReturn("Ok")
    /\ UNCHANGED <<stash_vars, more_vars, bin, db, srv>>

\* index_item_to_symbol: get_object_name(src_id), get_symbol(sym_id); the
\* StoredSlice of a string holds any offset and length, its bytes are
\* UTF-8 or not
lookup_index_item_to_symbol ==
    /\ rd.pc = "symbol"
    /\ \E name_offset \in Offsets, name_length \in 0..MaxCount, name_utf8 \in BOOLEAN,
          sym_offset \in Offsets, sym_length \in 0..MaxCount, sym_utf8 \in BOOLEAN :
          rd' = IF ~get_slice(rd.len, rd.header.object_names_start,
                              rd.header.object_names_count, StoredSliceSize)
                THEN ReaderReturn("BadMemDb")
                ELSE IF ~(rd.item.src_id < rd.header.object_names_count)
                THEN ReaderReturn("panic")
                ELSE IF ~get_data(rd.len, name_offset, name_length)
                THEN ReaderReturn("BadMemDb")
                ELSE IF ~name_utf8 THEN ReaderReturn("Utf8Error")
                ELSE IF ~get_slice(rd.len, rd.header.symbols_start,
                                   rd.header.symbols_count, StoredSliceSize)
                THEN ReaderReturn("BadMemDb")
                ELSE IF ~(rd.item.sym_id < rd.header.symbols_count)
                THEN ReaderReturn("panic")
                ELSE IF ~get_data(rd.len, sym_offset, sym_length)
                THEN ReaderReturn("BadMemDb")
                ELSE IF ~sym_utf8 THEN ReaderReturn("Utf8Error")
                ELSE ReaderReturn("Ok")
    /\ UNCHANGED <<stash_vars, more_vars, bin, db, srv>>

\* the result is dropped, the next buffer is opened
reader_drop ==
    /\ rd.pc = "done"
    /\ rd' = NoReader
    /\ UNCHANGED <<stash_vars, more_vars, bin, db, srv>>

\* C16: for every byte buffer, of any length and with any header offsets,
\* counts, slice lengths, src_id and sym_id, opening it and calling
\* lookup_by_uuid returns a result or the error BadMemDb or
\* UnsupportedMemDbVersion: no index into the variants, object name or
\* symbol table is out of range, the reader never panics.
C16_ReaderNeverPanics ==
    rd.pc = "done" => rd.outcome \in {"Ok", "BadMemDb", "UnsupportedMemDbVersion"}


(***************************************************************************)
(* memdb.rs: its MemDbBuilder, and its MemDb opened on the file written    *)
(***************************************************************************)
\* MemDbHeader { ..Default::default() }
DefaultHeader ==
    [version |-> 0, variants_count |-> 0, uuids_count |-> 0,
     tagged_object_names_count |-> 0, object_names_count |-> 0,
     symbols_count |-> 0]

\* the variants this builder is given: each has a uuid (var.uuid().unwrap())
\* and the builder does not read the vmsize
OldVariants == {var \in Variants : var.uuid # NoUuid /\ var.vmsize = 0}

\* MemDbBuilder::new of memdb.rs
NewOldBuilder ==
    [symbols |-> <<>>, object_names |-> <<>>, object_uuid_mapping |-> <<>>,
     variant_uuids |-> <<>>, variants |-> <<>>]

\* write_object_variant of memdb.rs: the items hold the absolute address
old_write_object_variant(b, var) ==
    LET object_names == add_object_name(b.object_names, var.name)
        src_id == position(object_names, var.name)
        built == build_symbol_index(b.symbols, var.symbols, 0, src_id,
                                    Len(var.symbols))
    IN  [symbols |-> built.symbols,
         object_names |-> object_names,
         object_uuid_mapping |-> Append(b.object_uuid_mapping, <<var.name, var.arch>>),
         variant_uuids |-> Append(b.variant_uuids, var.uuid),
         variants |-> Append(b.variants, sort_by_key(built.index, addrs(built.index)))]

\* the header flush writes: write_slices stores the length of each table
\* in the field it is handed
old_flushed_header(b) ==
    LET variants == [DefaultHeader EXCEPT !.variants_count = Len(b.variants)]
        uuids == [variants EXCEPT !.uuids_count = Len(b.variant_uuids)]
        tagged == [uuids EXCEPT !.tagged_object_names_count = Len(b.object_uuid_mapping)]
        names == [tagged EXCEPT !.tagged_object_names_count = Len(b.object_names)]
    IN  [names EXCEPT !.symbols_count = Len(b.symbols)]

\* the content of the file flush of memdb.rs writes, region by region
old_flushed_file(b) ==
    [header |-> old_flushed_header(b),
     variants |-> b.variants,
     uuids |-> b.variant_uuids,
     tagged_object_names |-> b.object_uuid_mapping,
     object_names |-> b.object_names,
     symbols |-> b.symbols]

NoOldFile ==
    [header |-> DefaultHeader, variants |-> <<>>, uuids |-> <<>>,
     tagged_object_names |-> <<>>, object_names |-> <<>>, symbols |-> <<>>]

\* verify_version of memdb.rs
verify_version(file) == file.header.version = 1

\* get_slice(start, count) of a table of the file: its first count entries
old_table(region, count) == SubSeq(region, 1, count)

\* get_index of memdb.rs: the first position of the uuid in the uuid table
\* indexes the variants table; "panic" when it lies beyond that table
old_get_index(file, uuid) ==
    LET uuids == old_table(file.uuids, file.header.uuids_count)
        variants == old_table(file.variants, file.header.variants_count)
        at == {i \in 1..Len(uuids) : uuids[i] = uuid}
    IN  IF at = {} THEN None
        ELSE LET idx == CHOOSE i \in at : \A j \in at : i <= j
             IN  IF idx <= Len(variants) THEN Some(variants[idx]) ELSE "panic"

\* the while loop of lookup_by_uuid of memdb.rs from (low, high) on
RECURSIVE old_search(_, _, _, _)
old_search(index, addr, low, high) ==
    IF low < high
    THEN LET mid == (low + high) \div 2
         IN  IF addr < index[mid + 1].addr THEN old_search(index, addr, low, mid)
             ELSE old_search(index, addr, mid + 1, high)
    ELSE low

\* index_item_to_symbol of memdb.rs; "panic" when an id is out of its table
old_index_item_to_symbol(file, ii) ==
    LET object_names == old_table(file.object_names, file.header.object_names_count)
        symbols == old_table(file.symbols, file.header.symbols_count)
    IN  IF ~(ii.src_id < Len(object_names)) THEN "panic"
        ELSE IF ~(ii.sym_id < Len(symbols)) THEN "panic"
        ELSE Some([object_name |-> object_names[ii.src_id + 1],
                   symbol |-> symbols[ii.sym_id + 1],
                   addr |-> ii.addr])

\* lookup_by_uuid of memdb.rs
old_lookup_by_uuid(file, uuid, addr) ==
    LET index == old_get_index(file, uuid)
    IN  IF index = None \/ index = "panic" THEN index
        ELSE LET low == old_search(index[1], addr, 0, Len(index[1]))
             IN  IF low > 0 /\ low <= Len(index[1])
                 THEN old_index_item_to_symbol(file, index[1][low])
                 ELSE None

NoOld ==
    [pc |-> "building", builder |-> NewOldBuilder, written |-> <<>>,
     file |-> NoOldFile, query |-> None, outcome |-> "none", result |-> None]

\* builder.write_object(obj, filename) for an object of one variant
old_write_object ==
    /\ old.pc = "building"
    /\ Len(old.written) < MaxVariants
    /\ \E var \in OldVariants :
          old' = [old EXCEPT !.builder = old_write_object_variant(old.builder, var),
                             !.written = Append(old.written, var)]
    /\ UNCHANGED <<stash_vars, bin, db, rd, srv, req, fz, fn>>

\* builder.flush()
old_flush ==
    /\ old.pc = "building"
    /\ old' = [old EXCEPT !.pc = "flushed", !.file = old_flushed_file(old.builder)]
    /\ UNCHANGED <<stash_vars, bin, db, rd, srv, req, fz, fn>>

\* MemDb::from_vec(file)?.lookup_by_uuid(uuid, addr)
old_open_lookup ==
    /\ old.pc = "flushed"
    /\ \E uuid \in Uuids, addr \in VmBase..(VmBase + MaxOff + 1) :
          LET found == old_lookup_by_uuid(old.file, uuid, addr)
          IN  old' = [old EXCEPT
                        !.pc = "done",
                        !.query = Some([uuid |-> uuid, addr |-> addr]),
                        !.outcome = IF ~verify_version(old.file)
                                    THEN "UnsupportedMemDbVersion"
                                    ELSE IF found = "panic" THEN "panic" ELSE "Ok",
                        !.result = IF verify_version(old.file) /\ found # "panic"
                                   THEN found ELSE None]
    /\ UNCHANGED <<stash_vars, bin, db, rd, srv, req, fz, fn>>

\* the written variants that hold a symbol at the address looked up
OldWrittenAt ==
    {i \in 1..Len(old.written) :
        /\ old.written[i].uuid = old.query[1].uuid
        /\ \E k \in 1..Len(old.written[i].symbols) :
              old.written[i].symbols[k].addr = old.query[1].addr}

\* C26: a file written with the MemDbBuilder of memdb.rs (new, write_object
\* for each object, flush) is accepted by the MemDb of the same module: its
\* header carries the version verify_version accepts and an
\* object_names_count equal to the number of interned object names; and
\* lookup_by_uuid at a written symbol address returns a Symbol with a symbol
\* name and the object name written for that address.
C26_OldRoundTrip ==
    old.pc = "done" =>
        /\ old.outcome = "Ok"
        /\ verify_version(old.file)
        /\ old.file.header.object_names_count = Len(old.builder.object_names)
        /\ OldWrittenAt # {} =>
              /\ old.result # None
              /\ \E i \in OldWrittenAt :
                    /\ old.result[1].object_name = old.written[i].name
                    /\ \E k \in 1..Len(old.written[i].symbols) :
                          /\ old.written[i].symbols[k].addr = old.query[1].addr
                          /\ old.written[i].symbols[k].name = old.result[1].symbol


(***************************************************************************)
(* api/handlers.rs: lookup_symbol_handler.  The candidates and their       *)
(* MemDbs are given: a MemDb holds or lacks a symbol for the uuid, and for  *)
(* the object name, that the query symbols of the request ask for.         *)
(***************************************************************************)
SdkIds == {1, 2}

\* the results of fuzzy_match_sdk_id: lists of distinct SDKs
CandidateLists ==
    {<<>>} \cup {<<a>> : a \in SdkIds}
    \cup {c \in {<<a, b>> : a \in SdkIds, b \in SdkIds} : c[1] # c[2]}

\* open: stash.get_memdb(info) returns the MemDb; by_uuid, by_name: its
\* lookup_by_uuid, lookup_by_object_name return Some for the object asked
MemDbs == [open : BOOLEAN, by_uuid : BOOLEAN, by_name : BOOLEAN]

\* a query symbol: whether its object_uuid and its object_name are given
SymbolQueries == [object_uuid : BOOLEAN, object_name : BOOLEAN]

QueryLists == UNION {[1..n -> SymbolQueries] : n \in 0..MaxSymbols}

\* what the loops leave when lc.get_memdb(sdk_info)? returns early
GetMemDbErr == Some([sdk |-> 0, by |-> "err"])

\* the loop `for sdk_info in sdk_infos.iter()` from candidate k on, with
\* the lookup named by
RECURSIVE try_candidates(_, _, _, _)
try_candidates(sdk_infos, dbs, by, k) ==
    IF k > Len(sdk_infos) THEN None
    ELSE IF ~dbs[sdk_infos[k]].open THEN GetMemDbErr
    ELSE IF dbs[sdk_infos[k]][by] THEN Some([sdk |-> sdk_infos[k], by |-> by])
    ELSE try_candidates(sdk_infos, dbs, by, k + 1)

\* a body of the loop that tries the object name after the uuid found nothing
lookup_symbol_either(symq, sdk_infos, dbs) ==
    LET by_uuid == IF symq.object_uuid
                   THEN try_candidates(sdk_infos, dbs, "by_uuid", 1) ELSE None
    IN  IF by_uuid = None /\ symq.object_name
        THEN try_candidates(sdk_infos, dbs, "by_name", 1)
        ELSE by_uuid

\* the body of `for symq in data.symbols`: rvsym
lookup_symbol(symq, sdk_infos, dbs) ==
    IF symq.object_uuid THEN try_candidates(sdk_infos, dbs, "by_uuid", 1)
    ELSE IF symq.object_name THEN try_candidates(sdk_infos, dbs, "by_name", 1)
    ELSE None

Response(status, symbols) == [status |-> status, symbols |-> symbols]

\* lookup_symbol_handler(ctx, req)
lookup_symbol_response(method, sdk_infos, dbs, symbols) ==
    LET rv == [i \in 1..Len(symbols) |-> lookup_symbol(symbols[i], sdk_infos, dbs)]
    IN  IF method # "Post" THEN Response("MethodNotAllowed", <<>>)
        ELSE IF sdk_infos = <<>> THEN Response("SdkNotFound", <<>>)
        ELSE IF \E i \in 1..Len(rv) : rv[i] = GetMemDbErr THEN Response("Err", <<>>)
        ELSE Response("Ok", rv)

NoRequest ==
    [pc |-> "idle", method |-> "", sdk_infos |-> <<>>,
     dbs |-> [i \in SdkIds |-> [open |-> FALSE, by_uuid |-> FALSE, by_name |-> FALSE]],
     symbols |-> <<>>, response |-> Response("none", <<>>)]

Requests ==
    {[NoRequest EXCEPT !.pc = "request", !.method = m, !.sdk_infos = c,
                       !.dbs = d, !.symbols = y] :
        m \in {"Post", "Get"}, c \in CandidateLists, d \in [SdkIds -> MemDbs],
        y \in QueryLists}

lookup_symbol_call ==
    /\ req.pc = "request"
    /\ req' = [req EXCEPT !.pc = "done",
                          !.response = lookup_symbol_response(req.method, req.sdk_infos,
                                                              req.dbs, req.symbols)]
    /\ UNCHANGED <<stash_vars, bin, db, rd, srv, old, fz, fn>>

\* a POST request with candidates, whose MemDbs can all be opened, has been
\* answered
Answered ==
    /\ req.pc = "done" /\ req.method = "Post" /\ req.sdk_infos # <<>>
    /\ \A k \in 1..Len(req.sdk_infos) : req.dbs[req.sdk_infos[k]].open

\* the positions of the candidates whose MemDb yields a symbol for query
\* symbol i by the lookup named by
Yielding(i, by) ==
    {k \in 1..Len(req.sdk_infos) :
        /\ req.symbols[i][IF by = "by_uuid" THEN "object_uuid" ELSE "object_name"]
        /\ req.dbs[req.sdk_infos[k]][by]}

\* entry is the result of the first candidate among those at positions
\* at, by the lookup named by; null when there is none
FirstOf(entry, at, by) ==
    IF at = {} THEN entry = None
    ELSE \E k \in at : /\ \A j \in at : k <= j
                       /\ entry = Some([sdk |-> req.sdk_infos[k], by |-> by])

FuzzyInfos == [minor : {2, 3}, patch : 0..MaxPatch, build : {"a", "b", "c"}]

\* the orders in which sdks() can yield a set of local SDKs
IterationOrders ==
    {o \in UNION {[1..n -> FuzzyInfos] : n \in 0..MaxLocal} :
        \A i \in 1..Len(o), j \in 1..Len(o) : o[i] = o[j] => i = j}

\* other.get_fuzzy_match(sdk_info): None unless (name, major, minor) match,
\* else the quality, lower is better: an equal build comes before an equal
\* patch, that before a newer patch
get_fuzzy_match(other, sdk_info) ==
    IF other.minor # sdk_info.minor THEN None
    ELSE Some((IF other.build = sdk_info.build THEN 0 ELSE 2 * (MaxPatch + 1))
              + (IF other.patch = sdk_info.patch THEN 0 ELSE MaxPatch + 1)
              + (MaxPatch - other.patch))

\* the loop over local_state.sdks() in iteration order: the (quality, info)
\* pairs pushed for the first k SDKs
RECURSIVE fuzzy_matches(_, _, _)
fuzzy_matches(order, sdk_info, k) ==
    IF k = 0 THEN <<>>
    ELSE LET quality == get_fuzzy_match(order[k], sdk_info)
             before == fuzzy_matches(order, sdk_info, k - 1)
         IN  IF quality = None THEN before
             ELSE Append(before, [quality |-> quality[1], info |-> order[k]])

qualities(rv) == [i \in 1..Len(rv) |-> rv[i].quality]

\* fuzzy_match_sdk_id: rv.sort_by_key(|&(q, _)| q), then the infos
fuzzy_match_sdk_id(order, sdk_info) ==
    LET rv == fuzzy_matches(order, sdk_info, Len(order))
        sorted == sort_by_key(rv, qualities(rv))
    IN  [i \in 1..Len(sorted) |-> sorted[i].info]

NoFuzzy ==
    [pc |-> "idle", first_order |-> <<>>, again_order |-> <<>>,
     sdk_info |-> [minor |-> 0, patch |-> 0, build |-> ""],
     first |-> <<>>, again |-> <<>>]

\* two calls with one query on one set of local SDKs, the map iterating in
\* an order of its own at each call
FuzzyCalls ==
    UNION {{[NoFuzzy EXCEPT !.pc = "first", !.first_order = o1, !.again_order = o2,
                            !.sdk_info = i] :
               i \in FuzzyInfos,
               o2 \in {o \in IterationOrders :
                          {o[k] : k \in 1..Len(o)} = {o1[k] : k \in 1..Len(o1)}}} :
           o1 \in IterationOrders}

fuzzy_match_first ==
    /\ fz.pc = "first"
    /\ fz' = [fz EXCEPT !.pc = "again",
                        !.first = fuzzy_match_sdk_id(fz.first_order, fz.sdk_info)]
    /\ UNCHANGED <<stash_vars, bin, db, rd, srv, old, req, fn>>

fuzzy_match_again ==
    /\ fz.pc = "again"
    /\ fz' = [fz EXCEPT !.pc = "done",
                        !.again = fuzzy_match_sdk_id(fz.again_order, fz.sdk_info)]
    /\ UNCHANGED <<stash_vars, bin, db, rd, srv, old, req, fn>>

\* C22: for a fixed set of local SDKs and a fixed query, every call of
\* fuzzy_match_sdk_id returns the same SDKs in the same order, sorted by
\* ascending match quality, whatever the iteration order of the local-state
\* map at each call.
C22_FuzzyDeterministic ==
    fz.pc = "done" =>
        /\ fz.first = fz.again
        /\ \A i \in 1..Len(fz.first), j \in 1..Len(fz.first) :
              i < j => get_fuzzy_match(fz.first[i], fz.sdk_info)[1]
                       <= get_fuzzy_match(fz.first[j], fz.sdk_info)[1]


(***************************************************************************)
(* sdk.rs: SdkInfo parsed from a path and formatted as a MemDB filename.   *)
(* A string is the sequence of its characters.                             *)
(***************************************************************************)
DigitChars == <<"0", "1", "2", "3", "4", "5", "6", "7", "8", "9">>

\* the characters of the class \d, of [a-zA-Z0-9], of \s
IsDigit(c) == \E d \in 1..10 : DigitChars[d] = c

IsAlnum(c) ==
    \/ IsDigit(c)
    \/ c \in {"a", "b", "c", "d", "e", "f", "g", "h", "i", "j", "k", "l", "m",
              "n", "o", "p", "q", "r", "s", "t", "u", "v", "w", "x", "y", "z",
              "A", "B", "C", "D", "E", "F", "G", "H", "I", "J", "K", "L", "M",
              "N", "O", "P", "Q", "R", "S", "T", "U", "V", "W", "X", "Y", "Z"}

IsSpace(c) == c \in {" ", "\t"}

\* the value of one decimal digit
digit_value(c) == (CHOOSE d \in 1..10 : DigitChars[d] = c) - 1

\* "{}" of an unsigned number: its decimal digits, no leading zero
RECURSIVE to_decimal(_)
to_decimal(n) ==
    IF n < 10 THEN <<DigitChars[n + 1]>>
    ELSE Append(to_decimal(n \div 10), DigitChars[(n % 10) + 1])

\* str::parse::<u32>() of a non-empty string of digits: the value of its
\* first k digits (the numbers of the model stay far below 2^32)
RECURSIVE parse_digits(_, _)
parse_digits(str, k) ==
    IF k = 0 THEN 0 ELSE 10 * parse_digits(str, k - 1) + digit_value(str[k])

ends_with(str, suffix) ==
    /\ Len(str) >= Len(suffix)
    /\ SubSeq(str, Len(str) - Len(suffix) + 1, Len(str)) = suffix

\* the string without the optional group (?:suffix)? at its end
without_suffix(str, suffix) ==
    IF ends_with(str, suffix) THEN SubSeq(str, 1, Len(str) - Len(suffix)) ELSE str

\* the position of the last c in the string, 0 if there is none
last_index(str, c) ==
    IF \E i \in 1..Len(str) : str[i] = c
    THEN CHOOSE i \in 1..Len(str) : str[i] = c /\ \A j \in (i + 1)..Len(str) : str[j] # c
    ELSE 0

\* the position of the first c in the string, 0 if there is none
first_index(str, c) ==
    IF \E i \in 1..Len(str) : str[i] = c
    THEN CHOOSE i \in 1..Len(str) : str[i] = c /\ \A j \in 1..(i - 1) : str[j] # c
    ELSE 0

is_digits(str) == Len(str) > 0 /\ \A i \in 1..Len(str) : IsDigit(str[i])

is_alnums(str) == Len(str) > 0 /\ \A i \in 1..Len(str) : IsAlnum(str[i])

\* the captures of (\d+)\.(\d+)(?:\.(\d+))? matched against the whole
\* string: None, or the three numbers, the patch level "0" by default
version_captures(str) ==
    LET dot1 == first_index(str, ".")
        rest == SubSeq(str, dot1 + 1, Len(str))
        dot2 == first_index(rest, ".")
        major == SubSeq(str, 1, dot1 - 1)
        minor == IF dot2 = 0 THEN rest ELSE SubSeq(rest, 1, dot2 - 1)
        patch == IF dot2 = 0 THEN <<"0">> ELSE SubSeq(rest, dot2 + 1, Len(rest))
    IN  IF dot1 = 0 THEN None
        ELSE IF ~(is_digits(major) /\ is_digits(minor) /\ is_digits(patch)) THEN None
        ELSE Some(<<parse_digits(major, Len(major)), parse_digits(minor, Len(minor)),
                    parse_digits(patch, Len(patch))>>)

\* SdkInfo::new
SdkInfo_new(name, version_major, version_minor, version_patchlevel, build) ==
    [name |-> name, version_major |-> version_major,
     version_minor |-> version_minor,
     version_patchlevel |-> version_patchlevel, build |-> build]

\* MEMDB_FILENAME_RE: ^([^-]+)_(\d+)\.(\d+)(?:\.(\d+))?_([a-zA-Z0-9]+)(?:\.memdb)?$
\* The build holds no "_" and the version holds none, so the build starts
\* after the last "_" and the version after the last "_" before that.
memdb_filename_captures(filename) ==
    LET body == without_suffix(filename, <<".", "m", "e", "m", "d", "b">>)
        under2 == last_index(body, "_")
        build == SubSeq(body, under2 + 1, Len(body))
        head == SubSeq(body, 1, under2 - 1)
        under1 == last_index(head, "_")
        name == SubSeq(head, 1, under1 - 1)
        version == version_captures(SubSeq(head, under1 + 1, Len(head)))
    IN  IF under2 = 0 \/ under1 = 0 THEN None
        ELSE IF Len(name) = 0 \/ (\E i \in 1..Len(name) : name[i] = "-") THEN None
        ELSE IF ~is_alnums(build) \/ version = None THEN None
        ELSE Some(SdkInfo_new(name, version[1][1], version[1][2], version[1][3], build))

\* the number of whitespace characters at the end of the string
RECURSIVE trailing_spaces(_)
trailing_spaces(str) ==
    IF Len(str) > 0 /\ IsSpace(str[Len(str)])
    THEN 1 + trailing_spaces(SubSeq(str, 1, Len(str) - 1))
    ELSE 0

\* SDK_FILENAME_RE: ^(\d+)\.(\d+)(?:\.(\d+))?\s+\(([a-zA-Z0-9]+)\)(?:\.zip)?$
\* None, or the version and the build
sdk_filename_captures(filename) ==
    LET body == without_suffix(filename, <<".", "z", "i", "p">>)
        open == last_index(body, "(")
        build == SubSeq(body, open + 1, Len(body) - 1)
        head == SubSeq(body, 1, open - 1)
        spaces == trailing_spaces(head)
        version == version_captures(SubSeq(head, 1, Len(head) - spaces))
    IN  IF Len(body) = 0 \/ body[Len(body)] # ")" \/ open = 0 THEN None
        ELSE IF ~is_alnums(build) \/ spaces = 0 \/ version = None THEN None
        ELSE Some([version |-> version[1], build |-> build])

\* a mapping that takes every folder for the iOS folder
always_ios(folder) == Some(<<"i", "O", "S">>)

get_sdk_name_from_folder(folder) ==
    IF folder = "iOS DeviceSupport" THEN Some(<<"i", "O", "S">>)
    ELSE IF folder = "tvOS DeviceSupport" THEN Some(<<"t", "v", "O", "S">>)
    ELSE None

\* a path without a parent folder name
NoFolder == ""

\* SdkInfo::from_path(path): folder is the name of the parent of the path
\* (NoFolder if it has none), filename its last component
from_path(folder, filename) ==
    LET memdb == memdb_filename_captures(filename)
        caps == sdk_filename_captures(filename)
    IN  IF memdb # None THEN memdb
        ELSE IF folder = NoFolder THEN None
        ELSE IF caps = None THEN None
        ELSE IF get_sdk_name_from_folder(folder) = None THEN None
        ELSE Some(SdkInfo_new(get_sdk_name_from_folder(folder)[1],
                              caps[1].version[1], caps[1].version[2],
                              caps[1].version[3], caps[1].build))

\* Sdk::memdb_filename: format!("{}_{}.{}.{}_{}.memdb", ..)
sdk_memdb_filename(info) ==
    info.name \o <<"_">> \o to_decimal(info.version_major) \o <<".">>
    \o to_decimal(info.version_minor) \o <<".">>
    \o to_decimal(info.version_patchlevel) \o <<"_">> \o info.build
    \o <<".", "m", "e", "m", "d", "b">>

\* RemoteSdk::local_filename: self.filename.trim_right_matches('z')
RECURSIVE local_filename(_)
local_filename(filename) ==
    IF Len(filename) > 0 /\ filename[Len(filename)] = "z"
    THEN local_filename(SubSeq(filename, 1, Len(filename) - 1))
    ELSE filename

\* SdkInfo::from_filename of an upstream key that ends with ".memdbz": the
\* MemDB filename form, the compressed extension accepted
from_filename(filename) ==
    IF ends_with(filename, <<".", "m", "e", "m", "d", "b", "z">>)
    THEN memdb_filename_captures(SubSeq(filename, 1, Len(filename) - 1))
    ELSE memdb_filename_captures(filename)

\* the SDKs described: name, version, and the build or None
Descriptions ==
    [name : {<<"i", "O", "S">>, <<"t", "v", "O", "S">>},
     major : {2, 10}, minor : {2}, patch : {0, 3},
     build : {None, Some(<<"1", "4", "C", "9", "3">>), Some(<<"A">>)}]

\* "<major>.<minor>.<patch>", or "<major>.<minor>" with the patch omitted
version_string(d, omit_patch) ==
    to_decimal(d.major) \o <<".">> \o to_decimal(d.minor)
    \o (IF omit_patch THEN <<>> ELSE <<".">> \o to_decimal(d.patch))

\* "_<build>", nothing for an SDK without build
build_string(d) == IF d.build = None THEN <<>> ELSE <<"_">> \o d.build[1]

\* the canonical filename "<name>_<major>.<minor>.<patch>_<build>.memdb"
canonical_filename(d) ==
    d.name \o <<"_">> \o version_string(d, FALSE) \o build_string(d)
    \o <<".", "m", "e", "m", "d", "b">>

\* an upstream key "<name>_<major>.<minor>[.<patch>]_<build>.memdbz"
upstream_filename(d, omit_patch) ==
    d.name \o <<"_">> \o version_string(d, omit_patch) \o build_string(d)
    \o <<".", "m", "e", "m", "d", "b", "z">>

\* an SDK folder "<major>.<minor>[.<patch>] (<build>)[.zip]"
folder_filename(d, omit_patch, spaces, zip) ==
    version_string(d, omit_patch) \o spaces \o <<"(">> \o d.build[1] \o <<")">>
    \o (IF zip THEN <<".", "z", "i", "p">> ELSE <<>>)

\* last components of neither form: no whitespace before the build, no
\* closing parenthesis, a build that is not alphanumeric, no minor version
neither_filenames(d) ==
    {version_string(d, FALSE) \o <<"(">> \o d.build[1] \o <<")">>,
     version_string(d, FALSE) \o <<" ", "(">> \o d.build[1],
     version_string(d, FALSE) \o <<" ", "(">> \o d.build[1] \o <<"-", "x", ")">>,
     to_decimal(d.major) \o <<" ", "(">> \o d.build[1] \o <<")">>}

Folders == {"iOS DeviceSupport", "tvOS DeviceSupport", "watchOS DeviceSupport", NoFolder}

NoFilename ==
    [pc |-> "idle", kind |-> "", desc |-> None, omit_patch |-> FALSE,
     folder |-> NoFolder, filename |-> <<>>, parsed |-> None, key |-> <<>>,
     formatted |-> <<>>]

FilenameCall(pc, kind, d, omit_patch, folder, filename) ==
    [NoFilename EXCEPT !.pc = pc, !.kind = kind, !.desc = Some(d),
                       !.omit_patch = omit_patch, !.folder = folder,
                       !.filename = filename]

\* whether the patch level of the SDK can be left out of a name
Omissions(d) == IF d.patch = 0 THEN BOOLEAN ELSE {FALSE}

WithBuild == {d \in Descriptions : d.build # None}

\* the paths given to from_path, the keys upstream lists
FilenameCalls ==
    {FilenameCall("path", "canonical", d, FALSE, f, canonical_filename(d)) :
        d \in Descriptions, f \in Folders}
    \cup UNION {{FilenameCall("path", "folder", d, o, f, folder_filename(d, o, w, z)) :
                    o \in Omissions(d), f \in Folders,
                    w \in {<<" ">>, <<" ", "\t">>}, z \in BOOLEAN} :
                d \in WithBuild}
    \cup UNION {{FilenameCall("path", "neither", d, FALSE, f, n) :
                    f \in Folders, n \in neither_filenames(d)} :
                d \in WithBuild}
    \cup UNION {{FilenameCall("upstream", "upstream", d, o, NoFolder,
                              upstream_filename(d, o)) :
                    o \in Omissions(d)} :
                d \in WithBuild}

\* SdkInfo::from_path(path)
from_path_call ==
    /\ fn.pc = "path"
    /\ fn' = [fn EXCEPT !.pc = "parsed", !.parsed = from_path(fn.folder, fn.filename)]
    /\ UNCHANGED <<stash_vars, bin, db, rd, srv, old, req, fz>>

\* object_to_remote_sdk, then fetch_remote_state: the SDK is stored under
\* remote_sdk.local_filename()
object_to_remote_sdk ==
    /\ fn.pc = "upstream"
    /\ fn' = [fn EXCEPT !.pc = "parsed", !.parsed = from_filename(fn.filename),
                        !.key = IF from_filename(fn.filename) = None THEN <<>>
                                ELSE local_filename(fn.filename)]
    /\ UNCHANGED <<stash_vars, bin, db, rd, srv, old, req, fz>>

\* info.memdb_filename() of the SdkInfo parsed
memdb_filename_call ==
    /\ fn.pc = "parsed"
    /\ fn.parsed # None
    /\ fn' = [fn EXCEPT !.pc = "done", !.formatted = sdk_memdb_filename(fn.parsed[1])]
    /\ UNCHANGED <<stash_vars, bin, db, rd, srv, old, req, fz>>

\* the SdkInfo an SDK description stands for; no build is the empty build
\* and an omitted patch level is 0
info_of(d) ==
    SdkInfo_new(d.name, d.major, d.minor, d.patch,
                IF d.build = None THEN <<>> ELSE d.build[1])

Parsed == fn.pc \in {"parsed", "done"}

\* C23: for every SdkInfo (name, major, minor, patch, optional build),
\* parsing its canonical filename "<name>_<major>.<minor>.<patch>_<build>.memdb"
\* (build part omitted when absent) yields that SdkInfo, and formatting the
\* SdkInfo parsed from a canonical filename yields the filename again.
C23_CanonicalRoundTrip ==
    fn.kind = "canonical" =>
        /\ Parsed => fn.parsed = Some(info_of(fn.desc[1]))
        /\ fn.pc = "done" => fn.formatted = fn.filename

C29_KeyIsMemdbFilename ==
    fn.kind = "upstream" /\ fn.pc = "done" => fn.key = fn.formatted



(***************************************************************************)
(* api/server.rs: the background threads of ApiServer::run and the health  *)
(* check.  A call of sync() or check_health() returns Ok, returns Err or   *)
(* panics.                                                                 *)
(***************************************************************************)
\* SyncStatus::lag
lag(status) == status.missing + status.different

\* healthy up to a lag of exactly a tenth of the upstream SDKs
at_most_tenth(missing_different, total) == 10 * missing_different <= total

\* lag / total < 0.10 on the f32 values of the two counts, exact for counts
\* below 2^24; the quotient by total = 0 is NaN or infinite, not below 0.10
below_tenth(missing_different, total) ==
    IF total = 0 THEN FALSE ELSE 10 * missing_different < total

\* SyncStatus::is_healthy
is_healthy(status) ==
    IF status.offline THEN TRUE
    ELSE below_tenth(lag(status), status.remote_total)

\* the statuses get_sync_status returns: with the listing fetched, any
\* counts of missing and different among the upstream SDKs; else offline
SyncStatuses ==
    {st \in [remote_total : 0..MaxTotal, missing : 0..MaxBehind,
             different : 0..MaxBehind, revision : {0}, offline : {FALSE}] :
        st.missing + st.different <= st.remote_total}
    \cup {offline_status(DefaultState)}

Outcomes == {"ok", "err", "panic"}

NoTask == [pc |-> "unspawned", outcome |-> "none"]

\* server: "starting" in ApiServer::run before the listener, "running", or
\* "exited" when run returned an error or the main thread panicked
NoServer ==
    [server |-> "starting", enable_sync |-> TRUE, sync |-> NoTask,
     health |-> NoTask, cached_memdb_status |-> None, response |-> None]

\* a thread that ends when its closure panics
run_unisolated(outcome) == IF outcome = "panic" THEN "dead" ELSE "sleep"

\* run_isolated(f): an Err is logged, a panic is caught by catch_unwind and
\* logged; the caller goes on to thread::sleep
run_isolated(outcome) == "sleep"

\* run: spawn_sync_thread
spawn_sync_thread ==
    /\ srv.server = "starting" /\ srv.enable_sync
    /\ srv.sync.pc = "unspawned"
    /\ srv' = [srv EXCEPT !.sync.pc = "loop"]
    /\ UNCHANGED <<stash_vars, more_vars, bin, db, rd>>

\* run: spawn_healthcheck_thread runs ctx.check_health()? before it spawns
\* the thread; then run binds the listener
spawn_healthcheck_thread ==
    /\ srv.server = "starting" /\ srv.enable_sync
    /\ srv.sync.pc # "unspawned"
    /\ \E outcome \in Outcomes :
        \E status \in IF outcome = "ok" THEN SyncStatuses ELSE {NoStatus} :
          srv' = IF outcome = "ok"
                 THEN [srv EXCEPT !.cached_memdb_status = Some(status),
                                  !.health.pc = "loop",
                                  !.server = "running"]
                 ELSE [srv EXCEPT !.server = "exited"]
    /\ UNCHANGED <<stash_vars, more_vars, bin, db, rd>>

\* run with the background sync disabled
run_without_sync ==
    /\ srv.server = "starting" /\ ~srv.enable_sync
    /\ srv' = [srv EXCEPT !.server = "running"]
    /\ UNCHANGED <<stash_vars, more_vars, bin, db, rd>>

\* the loop of the sync thread: run_isolated(move || ctx.stash.sync(..))
sync_task_call ==
    /\ srv.server # "exited"
    /\ srv.sync.pc = "loop"
    /\ srv' = [srv EXCEPT !.sync.pc = "call"]
    /\ UNCHANGED <<stash_vars, more_vars, bin, db, rd>>

sync_task_return ==
    /\ srv.server # "exited"
    /\ srv.sync.pc = "call"
    /\ \E outcome \in Outcomes :
          srv' = [srv EXCEPT !.sync = [pc |-> run_isolated(outcome),
                                       outcome |-> outcome]]
    /\ UNCHANGED <<stash_vars, more_vars, bin, db, rd>>

\* thread::sleep(std_interval), then the next iteration of the loop
sync_task_sleep ==
    /\ srv.server # "exited"
    /\ srv.sync.pc = "sleep"
    /\ srv' = [srv EXCEPT !.sync.pc = "loop"]
    /\ UNCHANGED <<stash_vars, more_vars, bin, db, rd>>

sync_task == sync_task_call \/ sync_task_return \/ sync_task_sleep

\* the loop of the health thread: run_isolated(move || ctx.check_health())
health_task_call ==
    /\ srv.server # "exited"
    /\ srv.health.pc = "loop"
    /\ srv' = [srv EXCEPT !.health.pc = "call"]
    /\ UNCHANGED <<stash_vars, more_vars, bin, db, rd>>

\* check_health: get_sync_status()?, then the status is cached
health_task_return ==
    /\ srv.server # "exited"
    /\ srv.health.pc = "call"
    /\ \E outcome \in Outcomes :
          \E status \in IF outcome = "ok" THEN SyncStatuses ELSE {NoStatus} :
              srv' = [srv EXCEPT
                        !.health = [pc |-> run_isolated(outcome), outcome |-> outcome],
                        !.cached_memdb_status =
                            IF outcome = "ok" THEN Some(status) ELSE @,
                        !.response = None]
    /\ UNCHANGED <<stash_vars, more_vars, bin, db, rd>>

health_task_sleep ==
    /\ srv.server # "exited"
    /\ srv.health.pc = "sleep"
    /\ srv' = [srv EXCEPT !.health.pc = "loop"]
    /\ UNCHANGED <<stash_vars, more_vars, bin, db, rd>>

health_task == health_task_call \/ health_task_return \/ health_task_sleep

\* get_healthcheck_result, on a request thread
get_healthcheck_result ==
    /\ srv.server = "running"
    /\ srv.response = None
    /\ srv' = [srv EXCEPT !.response =
                 IF srv.enable_sync
                 THEN IF srv.cached_memdb_status # None
                      THEN Some([is_offline |-> srv.cached_memdb_status[1].offline,
                                 is_healthy |-> is_healthy(srv.cached_memdb_status[1]),
                                 sync_lag |-> lag(srv.cached_memdb_status[1])])
                      ELSE Some([is_offline |-> TRUE, is_healthy |-> FALSE,
                                 sync_lag |-> 0])
                 ELSE Some([is_offline |-> TRUE, is_healthy |-> TRUE,
                            sync_lag |-> 0])]
    /\ UNCHANGED <<stash_vars, more_vars, bin, db, rd>>

\* the health response computed from the cached status of a server that syncs
HealthOfCached ==
    /\ srv.enable_sync
    /\ srv.cached_memdb_status # None
    /\ srv.response # None

\* C17: is_healthy is true exactly when the status is offline or
\* (missing + different) / remote_total < 0.10 (a quotient by 0 is not
\* below 0.10), so a lag of a tenth of the upstream SDKs or more is
\* unhealthy; a status computed while the listing cannot be fetched is
\* offline, has lag 0 and is healthy.
C17_HealthyBelowTenth ==
    HealthOfCached =>
        LET status == srv.cached_memdb_status[1]
        IN  /\ srv.response[1].is_healthy <=>
                  \/ status.offline
                  \/ /\ status.remote_total > 0
                     /\ 10 * (status.missing + status.different) < status.remote_total
            /\ status.offline =>
                  /\ srv.response[1].is_offline
                  /\ srv.response[1].sync_lag = 0
                  /\ srv.response[1].is_healthy

\* the health of a status with a lag of exactly a tenth of the upstream
\* SDKs was computed: unhealthy
C17_Witness ==
    /\ HealthOfCached
    /\ ~srv.cached_memdb_status[1].offline
    /\ srv.cached_memdb_status[1].remote_total = 10
    /\ srv.cached_memdb_status[1].missing + srv.cached_memdb_status[1].different = 1
    /\ ~srv.response[1].is_healthy

\* C30: a status obtained from a reachable upstream (offline = false) with
\* missing = 0 and different = 0 is healthy for every remote_total >= 0,
\* an upstream that lists no SDK (remote_total = 0) included.
C30_UpToDateIsHealthy ==
    (/\ HealthOfCached
     /\ ~srv.cached_memdb_status[1].offline
     /\ srv.cached_memdb_status[1].missing = 0
     /\ srv.cached_memdb_status[1].different = 0) =>
        srv.response[1].is_healthy

ServerRunning == srv.server = "running" /\ srv.enable_sync

\* C19: in the running server the sync task and the health task keep
\* ticking: after a tick whose call returned an error or panicked the next
\* tick runs, and no tick failure ends the loop, the thread or the process.
C19_TasksKeepTicking ==
    /\ [](srv.sync.pc # "dead" /\ srv.health.pc # "dead")
    /\ [][srv.server = "running" => srv'.server = "running"]_vars
    /\ ServerRunning ~> (srv.sync.pc = "call")
    /\ ServerRunning ~> (srv.health.pc = "call")

\* both tasks run their next tick after a tick that panicked (sync) and a
\* tick that returned an error (health)
C19_Witness ==
    /\ ServerRunning
    /\ srv.sync.pc = "call" /\ srv.sync.outcome = "panic"
    /\ srv.health.pc = "call" /\ srv.health.outcome = "err"


\* the stash calls in progress
CallsInProgress ==
    (IF s.pc = "idle" THEN 0 ELSE 1) + (IF q.pc = "idle" THEN 0 ELSE 1)
    + Cardinality({r \in Readers : g[r].pc # "idle"})

\* no call of the other modules made
MoreIdle == old = NoOld /\ req = NoRequest /\ fz = NoFuzzy /\ fn = NoFilename

\* sync() on the background thread while request threads call get_memdb()
Init == StashInit /\ bin = NoSearch /\ db = NoDb /\ rd = NoReader /\ srv = NoServer /\ MoreIdle

sync_concurrent == h.syncs < MaxConcSyncs /\ sync_start

Next == UpstreamChange \/ sync_concurrent \/ sync_steps \/ get_memdb

Spec == Init /\ [][Next]_vars

\* the stash calls made one at a time: a call starts when none is in progress
sync_alone == CallsInProgress = 0 /\ sync_start

get_memdb_alone ==
    /\ CallsInProgress = 0
    /\ \E r \in Callers, info \in SdkNames : get_memdb_start(r, info)

get_sync_status_alone == CallsInProgress = 0 /\ get_sync_status_start

NextSeq ==
    \/ UpstreamChange
    \/ sync_alone
    \/ sync_steps
    \/ get_memdb_alone
    \/ get_memdb_steps
    \/ get_sync_status_alone
    \/ get_sync_status_steps

SpecSeq == Init /\ [][NextSeq]_vars

\* the stash left alone: nothing upstream, nothing local, no call made
StashIdle == StashInit /\ upstream = [n \in SdkNames |-> NoSdk]

\* sync() on the background thread while another thread calls
\* get_sync_status() or get_revision()
NextStatus ==
    \/ UpstreamChange
    \/ sync_concurrent
    \/ sync_steps
    \/ get_sync_status_start
    \/ get_sync_status_steps
    \/ get_revision_start
    \/ get_revision_steps

SpecStatus == Init /\ [][NextStatus]_vars

\* the revision of the snapshot MemDbStash.local_state holds, 0 for None
LocalRevision ==
    IF local_state = <<>> THEN 0 ELSE unwrap_or_0(local_state[1].revision)

\* C27: in every interleaving of sync() with get_sync_status() or
\* get_revision() on another thread, the revision of the in-memory
\* local_state never decreases, and whenever no stash call is in progress a
\* loaded local_state equals the sync.state on disk.
C27_LocalStateForward ==
    /\ [][LocalRevision' >= LocalRevision]_vars
    /\ [](CallsInProgress = 0 /\ local_state # <<>> => local_state[1] = DiskState)

\* sync() on the background thread while a request thread serves lookups
lookup_symbol_handler == \E r \in Callers, info \in SdkNames : lookup_symbol_match(r, info)

\* the steps of the handler's get_memdb call: fuzzy_match_sdk_id has loaded
\* local_state, so get_local_state finds it
lookup_symbol_get_memdb ==
    \E r \in Callers :
        \/ get_memdb_cached(r)
        \/ get_memdb_local_state(r)
        \/ get_memdb_unknown_sdk(r)
        \/ get_memdb_from_path(r)
        \/ get_memdb_insert(r)
        \/ get_memdb_reget(r)
        \/ get_memdb_done(r)

NextLookup ==
    \/ UpstreamChange
    \/ sync_concurrent
    \/ sync_steps
    \/ lookup_symbol_handler
    \/ lookup_symbol_get_memdb

SpecLookup == Init /\ [][NextLookup]_vars

\* C28: a lookup request whose sdk_id fuzzy-matched a local SDK gets its
\* MemDb and so yields a symbols response, also when a concurrent sync
\* deletes or replaces the candidate between fuzzy_match_sdk_id and
\* get_memdb: the get_memdb call of the handler never returns an error.
C28_MatchedRequestAnswered ==
    \A r \in Readers : g[r].pc = "done" /\ g[r].matched => g[r].result = "ok"

\* between syncs, thread 1 calls get_memdb(info), and thread 2 calls it
\* for the same info while thread 1 is in the call or holds its result
sync_between == CallsInProgress = 0 /\ h.syncs < MaxCacheSyncs /\ sync_start

get_memdb_between ==
    /\ s.pc = "idle"
    /\ \/ \E info \in SdkNames : get_memdb_start(1, info)
       \/ g[1].pc # "idle" /\ get_memdb_start(2, g[1].info)

\* the upstream changes between the calls
upstream_between == CallsInProgress = 0 /\ UpstreamChange

NextCache ==
    \/ upstream_between
    \/ sync_between
    \/ sync_steps
    \/ get_memdb_between
    \/ get_memdb_steps

SpecCache == Init /\ [][NextCache]_vars

\* C25: between two syncs, every get_memdb(info) that succeeds leaves an
\* entry for info in the cache, and all threads that hold a result for the
\* same info hold the very same handle: the file is opened once, also when
\* the threads call get_memdb(info) for an uncached SDK at the same time.
C25_SameHandle ==
    \A r1 \in Readers, r2 \in Readers :
        /\ g[r1].pc = "done" /\ g[r1].result = "ok"
        /\ g[r2].pc = "done" /\ g[r2].result = "ok"
        /\ g[r1].info = g[r2].info
        => /\ memdbs[g[r1].info].open
           /\ g[r1].handle = g[r2].handle

\* calls of binsearch_by_key
InitBinsearch == StashIdle /\ bin \in binsearch_inputs /\ db = NoDb /\ rd = NoReader /\ srv = NoServer /\ MoreIdle

NextBinsearch == binsearch_call

SpecBinsearch == InitBinsearch /\ [][NextBinsearch]_vars

\* dump_memdb of the objects of an SDK, then lookups in the file written
InitMemDb == StashIdle /\ bin = NoSearch /\ db = NewDb /\ rd = NoReader /\ srv = NoServer /\ MoreIdle

NextMemDb == write_object \/ flush \/ lookup \/ lookup_named

SpecMemDb == InitMemDb /\ [][NextMemDb]_vars

\* sync() and get_revision() called one at a time
get_revision_alone == CallsInProgress = 0 /\ get_revision_start

NextRev ==
    \/ UpstreamChange
    \/ sync_alone
    \/ sync_steps
    \/ get_revision_alone
    \/ get_revision_steps

SpecRev == Init /\ [][NextRev]_vars

\* buffers opened with MemDb::from_slice and looked up, one after another
InitReader == StashIdle /\ bin = NoSearch /\ db = NoDb /\ rd = NoReader /\ srv = NoServer /\ MoreIdle

NextReader ==
    from_slice \/ lookup_get_index \/ lookup_search
    \/ lookup_index_item_to_symbol \/ reader_drop

SpecReader == InitReader /\ [][NextReader]_vars

\* the server from ApiServer::run on; the scheduler runs each thread that
\* can take a step
InitServer ==
    /\ StashIdle /\ bin = NoSearch /\ db = NoDb /\ rd = NoReader /\ MoreIdle
    /\ srv \in {[NoServer EXCEPT !.enable_sync = e] : e \in BOOLEAN}

NextServer ==
    \/ spawn_sync_thread \/ spawn_healthcheck_thread \/ run_without_sync
    \/ sync_task \/ health_task \/ get_healthcheck_result

\* requests to lookup_symbol_handler
InitRequest ==
    /\ StashIdle /\ bin = NoSearch /\ db = NoDb /\ rd = NoReader /\ srv = NoServer
    /\ old = NoOld /\ req \in Requests /\ fz = NoFuzzy /\ fn = NoFilename

NextRequest == lookup_symbol_call

SpecRequest == InitRequest /\ [][NextRequest]_vars

\* pairs of calls of fuzzy_match_sdk_id
InitFuzzy ==
    /\ StashIdle /\ bin = NoSearch /\ db = NoDb /\ rd = NoReader /\ srv = NoServer
    /\ old = NoOld /\ req = NoRequest /\ fz \in FuzzyCalls /\ fn = NoFilename

NextFuzzy == fuzzy_match_first \/ fuzzy_match_again

SpecFuzzy == InitFuzzy /\ [][NextFuzzy]_vars

\* paths and upstream keys parsed to an SdkInfo, which is then formatted
InitFilename ==
    /\ StashIdle /\ bin = NoSearch /\ db = NoDb /\ rd = NoReader /\ srv = NoServer
    /\ old = NoOld /\ req = NoRequest /\ fz = NoFuzzy /\ fn \in FilenameCalls

NextFilename == from_path_call \/ object_to_remote_sdk \/ memdb_filename_call

SpecFilename == InitFilename /\ [][NextFilename]_vars

\* files written with the MemDbBuilder of memdb.rs, re-opened and looked up
InitOld == InitReader

NextOld == old_write_object \/ old_flush \/ old_open_lookup

SpecOld == InitOld /\ [][NextOld]_vars

SpecServer ==
    InitServer /\ [][NextServer]_vars /\ WF_vars(sync_task) /\ WF_vars(health_task)

====
